---- MODULE Spec2Model ----
(***************************************************************************)
(* EchoForge v3: Entry lifecycle and pipeline orchestration.               *)
(*                                                                         *)
(* The model covers the EF-06 EntryStore gateway (in-memory and            *)
(* table-backed), the EF-06 pipeline state machine, the EF-01 capture      *)
(* producers (watch folder, capture API, manual text), the idempotency     *)
(* guard and the four stage workers (EF-02 .. EF-05).                      *)
(*                                                                         *)
(* Python values that may be None, a scalar, a list or a dict are tagged   *)
(* records [t, v]; a dict is a function from its keys to tagged values.    *)
(* utcnow() is a logical clock that ticks on every gateway mutation.       *)
(***************************************************************************)
EXTENDS Integers, Sequences, FiniteSets, TLC

VARIABLES
    backend,            \* "memory" (InMemoryEntryStoreGateway) or "postgres"
    entries,            \* entry_id -> Entry (dict _entries / table entries)
    fingerprint_index,  \* InMemoryEntryStoreGateway._fingerprint_index
    clock,              \* utcnow()
    jobs,               \* job queue: every message enqueued so far
    procs,              \* capture runs and worker invocations, with their pc
    staged,             \* entry ids whose source file sits in <root>/processing
    incoming,           \* fingerprints of the files sitting in <root>/incoming
    redeliveries,       \* number of duplicate deliveries made so far
    txn,                \* table-backed gateway: the open transaction per client
    last                \* gateway harness: the last completed gateway call

vars == <<backend, entries, fingerprint_index, clock, jobs, procs, staged,
          incoming, redeliveries, txn, last>>

(***************************************************************************)
(* Bounds                                                                  *)
(***************************************************************************)
MaxCaptures == 2
MaxRedeliveries == 1
MaxGatewayCalls == 2
MaxStoreCalls == 3

(***************************************************************************)
(* Tagged Python values                                                    *)
(***************************************************************************)
None == [t |-> "none"]
S(x) == [t |-> "str", v |-> x]
B(x) == [t |-> "bool", v |-> x]
N(x) == [t |-> "int", v |-> x]
L(x) == [t |-> "list", v |-> x]
D(x) == [t |-> "dict", v |-> x]

EmptyDict == [k \in {} |-> None]

IsDict(x) == x.t = "dict"

\* Python truthiness (bool(x))
Truthy(x) ==
    CASE x.t = "none" -> FALSE
      [] x.t = "str" -> x.v # ""
      [] x.t = "bool" -> x.v
      [] x.t = "int" -> x.v # 0
      [] x.t = "list" -> Len(x.v) > 0
      [] x.t = "dict" -> DOMAIN x.v # {}

\* dict.get(key)
Get(d, k) == IF k \in DOMAIN d THEN d[k] ELSE None

(***************************************************************************)
(* pipeline_states.py                                                      *)
(***************************************************************************)
DEFAULT_INGEST_STATE == "captured"

PIPELINE_STATUS_TRANSITIONS ==
    [ captured |->
        [ captured |-> "captured",
          ingested |-> "captured",
          queued_for_transcription |-> "queued_for_transcription",
          queued_for_extraction |-> "queued_for_extraction" ],
      queued_for_transcription |->
        [ queued_for_transcription |-> "queued_for_transcription",
          transcription_in_progress |-> "processing_transcription",
          transcription_failed |-> "failed" ],
      processing_transcription |->
        [ transcription_in_progress |-> "processing_transcription",
          transcription_failed |-> "failed",
          transcription_complete |-> "processing_normalization",
          queued_for_normalization |-> "processing_normalization",
          queued_for_transcription |-> "queued_for_transcription" ],
      queued_for_extraction |->
        [ queued_for_extraction |-> "queued_for_extraction",
          extraction_in_progress |-> "processing_extraction",
          extraction_failed |-> "failed" ],
      processing_extraction |->
        [ extraction_in_progress |-> "processing_extraction",
          extraction_failed |-> "failed",
          extraction_complete |-> "processing_normalization",
          queued_for_normalization |-> "processing_normalization",
          queued_for_extraction |-> "queued_for_extraction" ],
      processing_normalization |->
        [ transcription_complete |-> "processing_normalization",
          extraction_complete |-> "processing_normalization",
          queued_for_normalization |-> "processing_normalization",
          normalization_in_progress |-> "processing_normalization",
          normalization_complete |-> "processing_semantic",
          normalization_failed |-> "failed" ],
      processing_semantic |->
        [ normalization_complete |-> "processing_semantic",
          queued_for_semantics |-> "processing_semantic",
          semantic_in_progress |-> "processing_semantic",
          semantic_failed |-> "failed",
          semantic_complete |-> "processed" ],
      processed |->
        [ semantic_complete |-> "processed",
          normalization_complete |-> "processed" ],
      failed |->
        [ transcription_failed |-> "failed",
          extraction_failed |-> "failed",
          normalization_failed |-> "failed",
          semantic_failed |-> "failed" ] ]

IngestStates == DOMAIN PIPELINE_STATUS_TRANSITIONS

\* The pipeline_status vocabulary (PIPELINE_STATUS namespace)
PIPELINE_STATUS ==
    { "captured", "ingested",
      "queued_for_transcription", "transcription_in_progress",
      "transcription_complete", "transcription_failed",
      "queued_for_extraction", "extraction_in_progress",
      "extraction_complete", "extraction_failed",
      "queued_for_normalization", "normalization_in_progress",
      "normalization_complete", "normalization_failed",
      "queued_for_semantics", "semantic_in_progress",
      "semantic_complete", "semantic_failed" }

\* A table in which no state accepts a <stage>_failed status
AcceptsNoFailure(current_ingest_state, pipeline_status) ==
    LET state == IF current_ingest_state = "" THEN DEFAULT_INGEST_STATE
                 ELSE current_ingest_state
    IN  /\ state \in DOMAIN PIPELINE_STATUS_TRANSITIONS
        /\ pipeline_status \in DOMAIN PIPELINE_STATUS_TRANSITIONS[state]
        /\ PIPELINE_STATUS_TRANSITIONS[state][pipeline_status] # "failed"

\* Whether resolve_next_ingest_state returns (TRUE) or raises ValueError.
\* state = current_ingest_state or DEFAULT_INGEST_STATE
ResolveAccepts(current_ingest_state, pipeline_status) ==
    LET state == IF current_ingest_state = "" THEN DEFAULT_INGEST_STATE
                 ELSE current_ingest_state
    IN  /\ state \in DOMAIN PIPELINE_STATUS_TRANSITIONS
        /\ pipeline_status \in DOMAIN PIPELINE_STATUS_TRANSITIONS[state]

\* A resolution that keeps the state whatever the status
ResolveKeepsState(current_ingest_state, pipeline_status) ==
    IF current_ingest_state = "" THEN DEFAULT_INGEST_STATE ELSE current_ingest_state

\* The value resolve_next_ingest_state returns when it does not raise.
resolve_next_ingest_state(current_ingest_state, pipeline_status) ==
    LET state == IF current_ingest_state = "" THEN DEFAULT_INGEST_STATE
                 ELSE current_ingest_state
    IN  PIPELINE_STATUS_TRANSITIONS[state][pipeline_status]

(***************************************************************************)
(* models.py: the Entry aggregate                                          *)
(***************************************************************************)
\* Entry.new: the row a create_entry call builds. metadata is kept as its
\* three parts: capture_fingerprint, capture_metadata and capture_events.
Entry_new(entry_id, source_type, source_channel, capture_fingerprint, capture_metadata, pipeline_status, timestamp) ==
    [ entry_id |-> entry_id,
      source_type |-> source_type,
      source_channel |-> source_channel,
      pipeline_status |-> pipeline_status,
      capture_fingerprint |-> capture_fingerprint,
      capture_metadata |-> capture_metadata,
      capture_events |-> << >>,
      created_at |-> timestamp,
      updated_at |-> timestamp,
      verbatim_preview |-> None,
      transcription_text |-> None,
      transcription_error |-> None,
      extracted_text |-> None,
      extraction_error |-> None,
      normalized_text |-> None,
      normalization_error |-> None,
      summary |-> None,
      type_label |-> None,
      domain_label |-> None,
      is_classified |-> FALSE ]

\* dict.update(patch): every key of the patch set, None included, no recursion
ShallowUpdate(original, patch) ==
    [ k \in DOMAIN original \cup DOMAIN patch |->
        IF k \in DOMAIN patch THEN patch[k] ELSE original[k] ]

\* _deep_merge_dict(original, patch)
RECURSIVE _deep_merge_dict(_, _)
_deep_merge_dict(original, patch) ==
    LET keys == DOMAIN original \cup {k \in DOMAIN patch : patch[k] # None}
    IN  [ k \in keys |->
            IF k \notin DOMAIN patch THEN original[k]
            ELSE IF patch[k] = None THEN original[k]
            ELSE IF IsDict(patch[k]) /\ IsDict(Get(original, k))
                 THEN D(_deep_merge_dict(original[k].v, patch[k].v))
            ELSE patch[k] ]

\* Entry.with_pipeline_status
with_pipeline_status(e, pipeline_status, timestamp) ==
    [e EXCEPT !.pipeline_status = pipeline_status, !.updated_at = timestamp]

\* Entry.with_capture_event
with_capture_event(e, event_type, data, timestamp) ==
    LET event == [ type |-> event_type,
                   timestamp |-> timestamp,
                   data |-> IF Truthy(data) THEN data ELSE None ]
    IN  [e EXCEPT !.capture_events = Append(e.capture_events, event),
                  !.updated_at = timestamp]

\* Entry.with_capture_metadata
with_capture_metadata(e, patch, timestamp) ==
    IF DOMAIN patch = {} THEN e
    ELSE [e EXCEPT !.capture_metadata = _deep_merge_dict(e.capture_metadata, patch),
                   !.updated_at = timestamp]

\* Entry.with_transcription_result
with_transcription_result(e, text, verbatim_preview, timestamp) ==
    [e EXCEPT !.transcription_text = text,
              !.transcription_error = None,
              !.verbatim_preview = IF verbatim_preview # None THEN verbatim_preview
                                   ELSE e.verbatim_preview,
              !.updated_at = timestamp]

\* The failure dict of with_*_failure
FailureDict(error_code, retryable) ==
    D([code |-> S(error_code), retryable |-> B(retryable)])

\* Entry.with_transcription_failure
with_transcription_failure(e, error_code, retryable, timestamp) ==
    [e EXCEPT !.transcription_error = FailureDict(error_code, retryable),
              !.updated_at = timestamp]

\* Entry.with_extraction_result
with_extraction_result(e, text, verbatim_preview, timestamp) ==
    [e EXCEPT !.extracted_text = text,
              !.extraction_error = None,
              !.verbatim_preview = IF verbatim_preview # None THEN verbatim_preview
                                   ELSE e.verbatim_preview,
              !.updated_at = timestamp]

\* Entry.with_extraction_failure
with_extraction_failure(e, error_code, retryable, timestamp) ==
    [e EXCEPT !.extraction_error = FailureDict(error_code, retryable),
              !.updated_at = timestamp]

\* Entry.with_normalization_result
with_normalization_result(e, text, timestamp) ==
    [e EXCEPT !.normalized_text = text,
              !.normalization_error = None,
              !.updated_at = timestamp]

\* Entry.with_normalization_failure
with_normalization_failure(e, error_code, retryable, timestamp) ==
    [e EXCEPT !.normalization_error = FailureDict(error_code, retryable),
              !.updated_at = timestamp]

\* Entry.with_summary_result: an empty verbatim_preview is filled from the
\* summary (summary[:400]; the summaries exercised are shorter)
with_summary_result(e, summary, timestamp) ==
    [e EXCEPT !.summary = summary,
              !.verbatim_preview = IF ~Truthy(e.verbatim_preview) /\ Truthy(summary)
                                   THEN summary ELSE e.verbatim_preview,
              !.updated_at = timestamp]

(***************************************************************************)
(* gateway.py: helpers shared by both backends                             *)
(***************************************************************************)
PIPELINE_TRANSITION_EVENT == "pipeline_status_changed"

\* An exception: its class, the pipeline_status and ingest_state a state-machine
\* ValueError names, and the code and retryable flag of a typed stage error.
Error(kind, status, state, code, retryable) ==
    [kind |-> kind, status |-> status, state |-> state, code |-> code, retryable |-> retryable]
NoError == Error("", "", "", "", FALSE)
Ok(e) == [ok |-> TRUE, entry |-> e, err |-> NoError]
Raise(e, kind, status, state) ==
    [ok |-> FALSE, entry |-> e, err |-> Error(kind, status, state, "", FALSE)]

\* _current_ingest_state: capture_meta.get("ingest_state") or DEFAULT_INGEST_STATE
_current_ingest_state(record) ==
    LET value == Get(record.capture_metadata, "ingest_state")
    IN  IF Truthy(value) THEN value.v ELSE DEFAULT_INGEST_STATE

\* The transition_record dict of _bootstrap_capture_metadata and
\* _apply_pipeline_transition
TransitionRecord(from_state, to_state, pipeline_status, previous, occurred_at) ==
    D([ from_ingest_state |-> from_state,
        to_ingest_state |-> S(to_state),
        pipeline_status |-> S(pipeline_status),
        previous_pipeline_status |-> previous,
        occurred_at |-> N(occurred_at) ])

\* capture_meta.get("pipeline_history") or []
HistoryOf(record) ==
    LET value == Get(record.capture_metadata, "pipeline_history")
    IN  IF value.t = "list" THEN value.v ELSE << >>

\* _bootstrap_capture_metadata; the caller has checked that the initial
\* pipeline_status is accepted from DEFAULT_INGEST_STATE.
_bootstrap_capture_metadata(record) ==
    IF Truthy(Get(record.capture_metadata, "ingest_state")) THEN record
    ELSE
        LET ingest_state == resolve_next_ingest_state(DEFAULT_INGEST_STATE,
                                                      record.pipeline_status)
            transition_record == TransitionRecord(None, ingest_state,
                                                  record.pipeline_status, None,
                                                  record.updated_at)
        IN  with_capture_metadata(record,
                [ ingest_state |-> S(ingest_state),
                  pipeline_status |-> S(record.pipeline_status),
                  pipeline_history |-> L(<<transition_record>>),
                  last_transition |-> transition_record ],
                record.updated_at)

\* A gateway that applies the status without consulting the transition table
ApplyWithoutTableCheck(record, pipeline_status, transition_time) ==
    Ok(with_capture_event(with_pipeline_status(record, pipeline_status, transition_time),
                          PIPELINE_TRANSITION_EVENT, None, transition_time))

\* A gateway that records every accepted status, a repeated one included
ApplyWithoutNoOpCheck(record, pipeline_status, transition_time) ==
    LET current_state == _current_ingest_state(record)
    IN  IF ~ResolveAccepts(current_state, pipeline_status)
        THEN Raise(record, "ValueError", pipeline_status, current_state)
        ELSE
            LET next_state == resolve_next_ingest_state(current_state, pipeline_status)
                transition_record ==
                    TransitionRecord(S(current_state), next_state, pipeline_status,
                                     S(record.pipeline_status), transition_time)
            IN  Ok(with_capture_event(
                    with_capture_metadata(
                        with_pipeline_status(record, pipeline_status, transition_time),
                        [ ingest_state |-> S(next_state),
                          pipeline_status |-> S(pipeline_status),
                          pipeline_history |-> L(Append(HistoryOf(record), transition_record)),
                          last_transition |-> transition_record ],
                        transition_time),
                    PIPELINE_TRANSITION_EVENT, transition_record, transition_time))

\* _apply_pipeline_transition: Ok(updated) or the ValueError it raises
_apply_pipeline_transition(record, pipeline_status, transition_time) ==
    LET current_state == _current_ingest_state(record)
    IN  IF ~ResolveAccepts(current_state, pipeline_status)
        THEN Raise(record, "ValueError", pipeline_status, current_state)
        ELSE
            LET next_state == resolve_next_ingest_state(current_state, pipeline_status)
            IN  IF pipeline_status = record.pipeline_status /\ next_state = current_state
                THEN Ok(record)
                ELSE
                    LET transition_record ==
                            TransitionRecord(S(current_state), next_state, pipeline_status,
                                             S(record.pipeline_status), transition_time)
                        history == Append(HistoryOf(record), transition_record)
                        u1 == with_pipeline_status(record, pipeline_status, transition_time)
                        u2 == with_capture_metadata(u1,
                                [ ingest_state |-> S(next_state),
                                  pipeline_status |-> S(pipeline_status),
                                  pipeline_history |-> L(history),
                                  last_transition |-> transition_record ],
                                transition_time)
                    IN  Ok(with_capture_event(u2, PIPELINE_TRANSITION_EVENT,
                                              transition_record, transition_time))

(***************************************************************************)
(* gateway.py: one operation per permitted mutation                        *)
(***************************************************************************)
\* A gateway call: the operation and its arguments.
Call(op, status, event_type, data, patch, text, code, retryable) ==
    [ op |-> op, status |-> status, event_type |-> event_type, data |-> data,
      patch |-> patch, text |-> text, code |-> code, retryable |-> retryable ]

update_pipeline_status(pipeline_status) ==
    Call("update_pipeline_status", pipeline_status, "", None, EmptyDict, None, "", FALSE)
record_capture_event(event_type, data) ==
    Call("record_capture_event", "", event_type, data, EmptyDict, None, "", FALSE)
merge_capture_metadata(patch) ==
    Call("merge_capture_metadata", "", "", None, patch, None, "", FALSE)
\* record_*_result(text=..., verbatim_preview=...): the preview in call.data
record_transcription_result(text, verbatim_preview) ==
    Call("record_transcription_result", "", "", verbatim_preview, EmptyDict, text, "", FALSE)
record_transcription_failure(error_code, retryable) ==
    Call("record_transcription_failure", "", "", None, EmptyDict, None, error_code, retryable)
record_extraction_result(text, verbatim_preview) ==
    Call("record_extraction_result", "", "", verbatim_preview, EmptyDict, text, "", FALSE)
record_extraction_failure(error_code, retryable) ==
    Call("record_extraction_failure", "", "", None, EmptyDict, None, error_code, retryable)
record_normalization_result(text) ==
    Call("record_normalization_result", "", "", None, EmptyDict, text, "", FALSE)
record_normalization_failure(error_code, retryable) ==
    Call("record_normalization_failure", "", "", None, EmptyDict, None, error_code, retryable)
save_summary(summary) ==
    Call("save_summary", "", "", None, EmptyDict, summary, "", FALSE)
\* save_classification(type_label, domain_label): both labels in call.data
save_classification(type_label, domain_label) ==
    Call("save_classification", "", "", D([type_label |-> type_label, domain_label |-> domain_label]), EmptyDict, None, "", FALSE)

\* update_entry_taxonomy(type_label=..., domain_label=...): labels in call.data
update_entry_taxonomy(type_label, domain_label) ==
    Call("update_entry_taxonomy", "", "", D([type_label |-> type_label, domain_label |-> domain_label]), EmptyDict, None, "", FALSE)

\* A taxonomy update that marks the Entry classified whatever the labels
ClassifiedWhateverLabels(record, type_label, domain_label, timestamp) ==
    [record EXCEPT !.type_label = type_label,
                   !.domain_label = domain_label,
                   !.is_classified = TRUE,
                   !.updated_at = timestamp]

\* _apply_taxonomy_update / _execute_taxonomy_update
_apply_taxonomy_update(record, type_label, domain_label, timestamp) ==
    [record EXCEPT !.type_label = type_label,
                   !.domain_label = domain_label,
                   !.is_classified = Truthy(type_label) /\ Truthy(domain_label),
                   !.updated_at = timestamp]

\* The Entry transformation a call applies to the row it fetched
\* (InMemoryEntryStoreGateway.<op>; PostgresEntryStoreGateway.<op> computes
\* the same values for the columns it writes).
Compute(call, record, timestamp) ==
    CASE call.op = "update_pipeline_status" ->
            _apply_pipeline_transition(record, call.status, timestamp)
      [] call.op = "record_capture_event" ->
            Ok(with_capture_event(record, call.event_type, call.data, timestamp))
      [] call.op = "merge_capture_metadata" ->
            Ok(with_capture_metadata(record, call.patch, timestamp))
      [] call.op = "record_transcription_result" ->
            Ok(with_transcription_result(record, call.text, call.data, timestamp))
      [] call.op = "record_transcription_failure" ->
            Ok(with_transcription_failure(record, call.code, call.retryable, timestamp))
      [] call.op = "record_extraction_result" ->
            Ok(with_extraction_result(record, call.text, call.data, timestamp))
      [] call.op = "record_extraction_failure" ->
            Ok(with_extraction_failure(record, call.code, call.retryable, timestamp))
      [] call.op = "record_normalization_result" ->
            Ok(with_normalization_result(record, call.text, timestamp))
      [] call.op = "record_normalization_failure" ->
            Ok(with_normalization_failure(record, call.code, call.retryable, timestamp))
      [] call.op = "save_summary" ->
            Ok(with_summary_result(record, call.text, timestamp))
      [] call.op \in {"save_classification", "update_entry_taxonomy"} ->
            Ok(_apply_taxonomy_update(record, call.data.v.type_label,
                                      call.data.v.domain_label, timestamp))

\* The columns of the metadata JSON document
MetadataColumns == {"capture_fingerprint", "capture_metadata", "capture_events"}

\* PostgresEntryStoreGateway: the columns each UPDATE statement sets
Columns(call) ==
    CASE call.op = "update_pipeline_status" ->
            MetadataColumns \cup {"pipeline_status", "updated_at"}
      [] call.op \in {"record_capture_event", "merge_capture_metadata"} ->
            MetadataColumns \cup {"updated_at"}
      [] call.op = "record_transcription_result" ->
            {"transcription_text", "transcription_error", "verbatim_preview", "updated_at"}
      [] call.op = "record_transcription_failure" ->
            {"transcription_error", "updated_at"}
      [] call.op = "record_extraction_result" ->
            {"extracted_text", "extraction_error", "verbatim_preview", "updated_at"}
      [] call.op = "record_extraction_failure" ->
            {"extraction_error", "updated_at"}
      [] call.op = "record_normalization_result" ->
            {"normalized_text", "normalization_error", "updated_at"}
      [] call.op = "record_normalization_failure" ->
            {"normalization_error", "updated_at"}
      [] call.op = "save_summary" ->
            {"summary", "updated_at"}
      [] call.op \in {"save_classification", "update_entry_taxonomy"} ->
            {"type_label", "domain_label", "is_classified", "updated_at"}

\* PostgresEntryStoreGateway.<op>: the statement computes its values from the
\* row it fetched (current) and sets them on the row as it is at the UPDATE.
PgApply(call, row, current, timestamp) ==
    LET Update(r) ==
            IF ~r.ok THEN Raise(row, r.err.kind, r.err.status, r.err.state)
            ELSE IF r.entry = current THEN Ok(row)
            ELSE Ok([c \in DOMAIN row |->
                        IF c \in Columns(call) THEN r.entry[c] ELSE row[c]])
    IN  Update(Compute(call, current, timestamp))

\* InMemoryEntryStoreGateway.<op>: self._entries[entry_id] = updated
MemApply(call, record, timestamp) ==
    LET Store(r) == IF r.ok THEN r ELSE Raise(record, r.err.kind, r.err.status, r.err.state)
    IN  Store(Compute(call, record, timestamp))

\* One call run to completion on the stored row by the gateway of a backend
GatewayCallOn(store, call, record, timestamp) ==
    IF store = "memory" THEN MemApply(call, record, timestamp)
    ELSE PgApply(call, record, record, timestamp)

\* One gateway call run to completion on the stored row.
GatewayCall(call, record, timestamp) ==
    GatewayCallOn(backend, call, record, timestamp)

\* The gateway calls of a handler in program order, each at its own utcnow();
\* the first call that raises ends the sequence with the row as it then is.
RECURSIVE RunCalls(_, _, _)
RunCalls(record, calls, timestamp) ==
    IF calls = << >> THEN Ok(record)
    ELSE LET Continue(r) ==
                 IF r.ok THEN RunCalls(r.entry, Tail(calls), timestamp + 1) ELSE r
         IN  Continue(GatewayCall(Head(calls), record, timestamp + 1))

(***************************************************************************)
(* gateway.py: create_entry and find_by_fingerprint                        *)
(***************************************************************************)
\* uuid4(): a fresh entry id
NewEntryId == Cardinality(DOMAIN entries) + 1

\* The rows holding the pair (capture_fingerprint, source_channel)
RowsWith(fingerprint, source_channel) ==
    { id \in DOMAIN entries :
        /\ entries[id].capture_fingerprint = fingerprint
        /\ entries[id].source_channel = source_channel }

\* find_by_fingerprint: the indexed entry id (0 for None). The in-memory
\* gateway reads _fingerprint_index; the table-backed one selects the row
\* with the pair, of which IDX_entries_fingerprint_channel admits one.
find_by_fingerprint(fingerprint, source_channel) ==
    IF backend = "memory"
    THEN IF <<fingerprint, source_channel>> \in DOMAIN fingerprint_index
         THEN fingerprint_index[<<fingerprint, source_channel>>] ELSE 0
    ELSE IF RowsWith(fingerprint, source_channel) = {} THEN 0
         ELSE CHOOSE id \in RowsWith(fingerprint, source_channel) : TRUE

\* create_entry: the new row, or the error that leaves the store as it is.
\* The table's unique index on (capture_fingerprint, source_channel) rejects
\* a second row for the pair; the in-memory gateway overwrites its index.
\* metadata is given as its capture_fingerprint ("" for none) and its
\* capture_metadata; _bootstrap_capture_metadata resolves the initial status
\* only when the metadata brings no ingest_state.
create_entry_on(store, source_type, source_channel, fingerprint, capture_metadata, pipeline_status, timestamp) ==
    LET record == Entry_new(NewEntryId, source_type, source_channel, fingerprint,
                            capture_metadata, pipeline_status, timestamp)
    IN  IF fingerprint = "" THEN Raise(record, "ValueError", "", "")
        ELSE IF /\ ~Truthy(Get(capture_metadata, "ingest_state"))
                /\ ~ResolveAccepts(DEFAULT_INGEST_STATE, pipeline_status)
        THEN Raise(record, "ValueError", pipeline_status, DEFAULT_INGEST_STATE)
        ELSE IF store = "postgres" /\ RowsWith(fingerprint, source_channel) # {}
        THEN Raise(record, "IntegrityError", "", "")
        ELSE Ok(_bootstrap_capture_metadata(record))

\* create_entry of the gateway the program was built with
create_entry_with_metadata(source_type, source_channel, fingerprint, capture_metadata, pipeline_status, timestamp) ==
    create_entry_on(backend, source_type, source_channel, fingerprint, capture_metadata,
                    pipeline_status, timestamp)

\* create_entry as the capture paths and the test helpers call it
create_entry(source_type, source_channel, fingerprint, pipeline_status, timestamp) ==
    create_entry_with_metadata(source_type, source_channel, fingerprint,
                               [fingerprint_algo |-> S("sha256")], pipeline_status, timestamp)

\* self._entries[record.entry_id] = record; self._fingerprint_index[...] = id
StoreNew(record) ==
    /\ entries' = [id \in DOMAIN entries \cup {record.entry_id} |->
                     IF id = record.entry_id THEN record ELSE entries[id]]
    /\ fingerprint_index' =
         IF backend = "memory"
         THEN LET key == <<record.capture_fingerprint, record.source_channel>>
              IN  [k \in DOMAIN fingerprint_index \cup {key} |->
                     IF k = key THEN record.entry_id ELSE fingerprint_index[k]]
         ELSE fingerprint_index

(***************************************************************************)
(* idempotency.py                                                          *)
(***************************************************************************)
SKIP_PIPELINE_STATUSES ==
    { "queued_for_transcription", "queued_for_extraction",
      "queued", "processing", "processed" }

\* A lookup that refuses every input an Entry exists for, whatever its status
EvaluateRefusingExisting(fingerprint, source_channel) ==
    LET existing == find_by_fingerprint(fingerprint, source_channel)
    IN  IF existing = 0
        THEN [should_process |-> TRUE, reason |-> "no_existing_entry",
              existing_entry_id |-> 0, status |-> ""]
        ELSE [should_process |-> FALSE, reason |-> "existing_entry_active_or_completed",
              existing_entry_id |-> existing, status |-> entries[existing].pipeline_status]

\* evaluate_idempotency: IdempotencyDecision(should_process, reason, existing_entry_id)
evaluate_idempotency(fingerprint, source_channel) ==
    LET existing == find_by_fingerprint(fingerprint, source_channel)
    IN  IF existing = 0
        THEN [should_process |-> TRUE, reason |-> "no_existing_entry",
              existing_entry_id |-> 0, status |-> ""]
        ELSE IF entries[existing].pipeline_status \in SKIP_PIPELINE_STATUSES
        THEN [should_process |-> FALSE, reason |-> "existing_entry_active_or_completed",
              existing_entry_id |-> existing, status |-> entries[existing].pipeline_status]
        ELSE [should_process |-> TRUE, reason |-> "existing_entry_retry_allowed",
              existing_entry_id |-> existing, status |-> entries[existing].pipeline_status]

(***************************************************************************)
(* Processes: capture runs and worker invocations                          *)
(***************************************************************************)
Proc(kind, pc, jid, entry_id, fingerprint, source_channel, source_type) ==
    [ kind |-> kind, pc |-> pc, jid |-> jid, entry_id |-> entry_id,
      fingerprint |-> fingerprint, source_channel |-> source_channel,
      source_type |-> source_type, attempts |-> 0, retryable_failures |-> 0,
      error |-> NoError, exc |-> NoError, decision |-> "", existing_status |-> "" ]

CaptureKinds == {"watcher", "api"}
WorkerKinds == {"transcription", "extraction", "normalization", "semantic"}
Captures == { p \in DOMAIN procs : procs[p].kind \in CaptureKinds }
HarnessRuns == { p \in DOMAIN procs : procs[p].kind = "harness" }

\* The capture configurations exercised: the audio watch profile of
\* build_default_watch_profiles and the capture API with a document file on
\* its default channel.
Fingerprints == {"fp1"}
CaptureProfiles ==
    { [kind |-> "watcher", source_type |-> "audio",
       source_channel |-> "watch_folder_audio", job_type |-> "transcription"],
      [kind |-> "api", source_type |-> "document",
       source_channel |-> "api_ingest", job_type |-> "doc_extraction"] }

JobTypeOf(source_type) == IF source_type = "audio" THEN "transcription" ELSE "doc_extraction"
QueueStatusOf(job_type) ==
    IF job_type = "transcription" THEN "queued_for_transcription"
    ELSE IF job_type = "doc_extraction" THEN "queued_for_extraction" ELSE "queued"

\* A job message: type, payload fields and the number of deliveries so far
Job(job_type, entry_id, source_channel, fingerprint, source) ==
    [ job_type |-> job_type, entry_id |-> entry_id, source_path |-> TRUE,
      source_channel |-> source_channel, fingerprint |-> fingerprint,
      source |-> source, deliveries |-> 0 ]

SetPc(p, pc) == procs' = [procs EXCEPT ![p].pc = pc]
SetRaised(p, err) == procs' = [procs EXCEPT ![p].pc = "raised", ![p].error = err]

(***************************************************************************)
(* EF-01 capture: watcher.py run_once and routers/capture.py                *)
(***************************************************************************)
ProfileOf(p) ==
    CHOOSE prof \in CaptureProfiles : prof.kind = procs[p].kind

\* A file lands in <root>/incoming of the watch folder.
DropFile(fingerprint) ==
    /\ Cardinality(Captures) < MaxCaptures
    /\ fingerprint \notin incoming
    /\ incoming' = incoming \cup {fingerprint}
    /\ UNCHANGED <<backend, entries, fingerprint_index, clock, jobs, procs, staged,
                   redeliveries, txn, last>>

\* run_once / _capture_file_reference up to the idempotency decision:
\* a duplicate is skipped (watcher) or answered 409 (API).
CaptureEvaluate(prof, fingerprint) ==
    /\ Cardinality(Captures) < MaxCaptures
    /\ prof.kind = "watcher" => fingerprint \in incoming
    /\ LET decision == evaluate_idempotency(fingerprint, prof.source_channel)
           p0 == Proc(prof.kind, "", 0, 0, fingerprint, prof.source_channel, prof.source_type)
           pc == IF ~decision.should_process THEN "skipped"
                 ELSE IF prof.kind = "watcher" THEN "move" ELSE "create"
       IN  procs' = Append(procs, [p0 EXCEPT !.pc = pc, !.decision = decision.reason,
                                             !.existing_status = decision.status])
    /\ UNCHANGED <<backend, entries, fingerprint_index, clock, jobs, staged, incoming,
                   redeliveries, txn, last>>

\* run_once: shutil.move(candidate, processing_dir / candidate.name)
CaptureMove(p) ==
    /\ procs[p].kind = "watcher" /\ procs[p].pc = "move"
    /\ IF procs[p].fingerprint \in incoming
       THEN /\ incoming' = incoming \ {procs[p].fingerprint}
            /\ staged' = staged \cup {<<procs[p].source_channel, procs[p].fingerprint>>}
            /\ SetPc(p, "create")
       ELSE /\ SetRaised(p, Error("FileNotFoundError", "", "", "", FALSE))
            /\ UNCHANGED <<incoming, staged>>
    /\ UNCHANGED <<backend, entries, fingerprint_index, clock, jobs, redeliveries, txn, last>>

\* create_entry(..., pipeline_status="captured")
CaptureCreate(p) ==
    /\ procs[p].kind \in CaptureKinds /\ procs[p].pc = "create"
    /\ LET r == create_entry(procs[p].source_type, procs[p].source_channel,
                             procs[p].fingerprint, "captured", clock + 1)
       IN  IF r.ok
           THEN /\ StoreNew(r.entry)
                /\ procs' = [procs EXCEPT ![p].pc = "enqueue", ![p].entry_id = r.entry.entry_id]
           ELSE /\ SetRaised(p, r.err)
                /\ UNCHANGED <<entries, fingerprint_index>>
    /\ clock' = clock + 1
    /\ UNCHANGED <<backend, jobs, staged, incoming, redeliveries, txn, last>>

\* job_enqueuer.enqueue(job_type, entry_id=..., source_path=...);
\* InfraJobQueueAdapter builds the payload {entry_id, source_path}.
CaptureEnqueue(p) ==
    /\ procs[p].kind \in CaptureKinds /\ procs[p].pc = "enqueue"
    /\ jobs' = Append(jobs, Job(ProfileOf(p).job_type, procs[p].entry_id, None, None, ""))
    /\ SetPc(p, "update")
    /\ UNCHANGED <<backend, entries, fingerprint_index, clock, staged, incoming,
                   redeliveries, txn, last>>

\* update_pipeline_status(entry_id, pipeline_status=queue_status)
CaptureUpdate(p) ==
    /\ procs[p].kind \in CaptureKinds /\ procs[p].pc = "update"
    /\ LET id == procs[p].entry_id
           r == GatewayCall(update_pipeline_status(QueueStatusOf(ProfileOf(p).job_type)),
                            entries[id], clock + 1)
       IN  /\ entries' = [entries EXCEPT ![id] = r.entry]
           /\ IF r.ok THEN SetPc(p, "done") ELSE SetRaised(p, r.err)
    /\ clock' = clock + 1
    /\ UNCHANGED <<backend, fingerprint_index, jobs, staged, incoming, redeliveries, txn, last>>

\* Every invocation has returned or raised and every message was delivered.
Terminated(p) == procs[p].pc \in {"done", "raised", "skipped"}
Quiescent ==
    /\ \A p \in DOMAIN procs : Terminated(p)
    /\ \A j \in DOMAIN jobs : jobs[j].deliveries >= 1

(***************************************************************************)
(* tests/helpers/pipeline_harness.py: an Entry created queued_for_<stage>   *)
(* and a first-stage job carrying the full payload                         *)
(***************************************************************************)
HarnessProfiles ==
    { [source_type |-> "audio", source_channel |-> "watch_folder_audio",
       pipeline_status |-> "queued_for_transcription", job_type |-> "transcription"],
      [source_type |-> "document", source_channel |-> "watch_documents",
       pipeline_status |-> "queued_for_extraction", job_type |-> "doc_extraction"] }

\* run_audio_pipeline / run_document_pipeline up to the first worker call;
\* a harness is built with its own store and runs one pipeline
HarnessRun(prof, fingerprint) ==
    /\ HarnessRuns = {}
    /\ Quiescent
    /\ LET r == create_entry(prof.source_type, prof.source_channel, fingerprint,
                             prof.pipeline_status, clock + 1)
           p0 == Proc("harness", "done", 0, 0, fingerprint, prof.source_channel, prof.source_type)
       IN  IF r.ok
           THEN /\ StoreNew(r.entry)
                /\ procs' = Append(procs, [p0 EXCEPT !.entry_id = r.entry.entry_id])
                /\ staged' = staged \cup {<<prof.source_channel, fingerprint>>}
                /\ jobs' = Append(jobs, Job(prof.job_type, r.entry.entry_id,
                                            S(prof.source_channel), S(fingerprint), ""))
           ELSE /\ procs' = Append(procs, [p0 EXCEPT !.pc = "raised", !.error = r.err])
                /\ UNCHANGED <<entries, fingerprint_index, staged, jobs>>
    /\ clock' = clock + 1
    /\ UNCHANGED <<backend, incoming, redeliveries, txn, last>>

(***************************************************************************)
(* Job queue (external): at-least-once delivery of each message            *)
(***************************************************************************)
WorkerOf(job_type) ==
    CASE job_type = "transcription" -> "transcription"
      [] job_type = "doc_extraction" -> "extraction"
      [] job_type = "echo.normalize_entry" -> "normalization"
      [] job_type = "echo.semantic_enrich" -> "semantic"

Spawn(j) ==
    LET job == jobs[j]
        e == entries[job.entry_id]
    IN  /\ procs' = Append(procs, Proc(WorkerOf(job.job_type), "start", j, job.entry_id,
                                       e.capture_fingerprint, e.source_channel, e.source_type))
        /\ jobs' = [jobs EXCEPT ![j].deliveries = @ + 1]

\* The first delivery of a message to its worker
Deliver(j) ==
    /\ jobs[j].deliveries = 0
    /\ Spawn(j)
    /\ UNCHANGED <<backend, entries, fingerprint_index, clock, staged, incoming,
                   redeliveries, txn, last>>

\* A duplicate delivery of a message already delivered
Redeliver(j) ==
    /\ jobs[j].deliveries >= 1
    /\ redeliveries < MaxRedeliveries
    /\ redeliveries' = redeliveries + 1
    /\ Spawn(j)
    /\ UNCHANGED <<backend, entries, fingerprint_index, clock, staged, incoming, txn, last>>

(***************************************************************************)
(* Stage workers: shared pieces                                            *)
(***************************************************************************)
\* _record_capture_event(gateway, entry_id, event_type=..., pipeline_status=...)
StageEvent(event_type, pipeline_status) ==
    record_capture_event(event_type, D([pipeline_status |-> S(pipeline_status)]))

\* The last_error patch of a worker's _handle_failure
LastErrorPatch(stage, error_code, retryable) ==
    [ last_error |-> D([ stage |-> S(stage), code |-> S(error_code),
                         retryable |-> B(retryable) ]) ]

\* What the external transforms can return or raise
TranscriptTexts == { "", " ", " hello " }

\* _build_verbatim_preview / _build_preview: the stripped text, None when
\* nothing is left (the texts exercised are shorter than the preview limit)
_build_verbatim_preview(text) ==
    CASE text = " hello " -> S("hello")
      [] text \in {"", " "} -> None
      [] OTHER -> S(text)
ErrorOutcomes ==
    { [code |-> "internal_error", retryable |-> FALSE],
      [code |-> "provider_unavailable", retryable |-> TRUE] }

\* The source file of the entry sits in <root>/processing
FileOf(p) == <<procs[p].source_channel, procs[p].fingerprint>>
IsStaged(p) == FileOf(p) \in staged

\* The handler's gateway calls applied in program order to the stored row
Run(p, calls) == RunCalls(entries[procs[p].entry_id], calls, clock)

\* Store the row a handler leaves behind and advance utcnow()
Commit(p, r, calls) ==
    /\ entries' = [entries EXCEPT ![procs[p].entry_id] = r.entry]
    /\ clock' = clock + Len(calls)

(***************************************************************************)
(* transcription_worker.py                                                 *)
(***************************************************************************)
\* handle: payload validation, transcription_in_progress, started event and
\* metadata patch, up to the call of client.transcribe
TranscriptionStart(p) ==
    /\ procs[p].kind = "transcription" /\ procs[p].pc = "start"
    /\ LET job == jobs[procs[p].jid]
           calls == << update_pipeline_status("transcription_in_progress"),
                       StageEvent("transcription_started", "transcription_in_progress"),
                       merge_capture_metadata(
                           [transcription |-> D([fingerprint |-> job.fingerprint,
                                                 language_hint |-> None])]) >>
           r == Run(p, calls)
       IN  IF ~job.source_path \/ ~Truthy(job.source_channel) \/ ~Truthy(job.fingerprint)
           THEN /\ SetRaised(p, Error("ValueError", "", "", "payload", FALSE))
                /\ UNCHANGED <<entries, clock>>
           ELSE /\ Commit(p, r, calls)
                /\ IF r.ok THEN SetPc(p, "transform") ELSE SetRaised(p, r.err)
    /\ UNCHANGED <<backend, fingerprint_index, jobs, staged, incoming, redeliveries, txn, last>>

\* handle after client.transcribe returned: result, transcription_complete,
\* completed event, metadata patch, media file roll, echo.normalize_entry
TranscriptionSucceed(p, text) ==
    /\ procs[p].kind = "transcription" /\ procs[p].pc = "transform"
    /\ LET rolled == IF IsStaged(p)
                     THEN << StageEvent("transcription_file_rolled", "transcription_complete") >>
                     ELSE << >>
           calls == << record_transcription_result(S(text), _build_verbatim_preview(text)),
                       update_pipeline_status("transcription_complete"),
                       StageEvent("transcription_completed", "transcription_complete"),
                       merge_capture_metadata(
                           [transcription |-> D([content_lang |-> S("en")])]) >> \o rolled
           r == Run(p, calls)
       IN  /\ Commit(p, r, calls)
           /\ IF r.ok
              THEN /\ SetPc(p, "done")
                   /\ staged' = staged \ {FileOf(p)}
                   /\ jobs' = Append(jobs, Job("echo.normalize_entry", procs[p].entry_id,
                                               None, None, "transcription"))
              ELSE /\ SetRaised(p, r.err)
                   /\ UNCHANGED <<staged, jobs>>
    /\ UNCHANGED <<backend, fingerprint_index, incoming, redeliveries, txn, last>>

\* handle after client.transcribe raised: _handle_failure, then re-raise
TranscriptionFail(p, outcome) ==
    /\ procs[p].kind = "transcription" /\ procs[p].pc = "transform"
    /\ LET rolled == IF IsStaged(p)
                     THEN << StageEvent("transcription_file_rolled", "transcription_failed") >>
                     ELSE << >>
           calls == << record_transcription_failure(outcome.code, outcome.retryable),
                       update_pipeline_status("transcription_failed"),
                       StageEvent("transcription_failed", "transcription_failed") >>
                    \o rolled \o
                    << merge_capture_metadata(
                           LastErrorPatch("transcription", outcome.code, outcome.retryable)) >>
           r == Run(p, calls)
       IN  /\ Commit(p, r, calls)
           /\ IF r.ok
              THEN /\ SetRaised(p, Error("TranscriptionError", "", "", outcome.code,
                                         outcome.retryable))
                   /\ staged' = staged \ {FileOf(p)}
              ELSE /\ SetRaised(p, r.err)
                   /\ UNCHANGED staged
    /\ UNCHANGED <<backend, fingerprint_index, jobs, incoming, redeliveries, txn, last>>

(***************************************************************************)
(* extraction_worker.py                                                    *)
(***************************************************************************)
\* handle up to the call of extract_document
ExtractionStart(p) ==
    /\ procs[p].kind = "extraction" /\ procs[p].pc = "start"
    /\ LET job == jobs[procs[p].jid]
           calls == << update_pipeline_status("extraction_in_progress"),
                       StageEvent("extraction_started", "extraction_in_progress"),
                       merge_capture_metadata(
                           [document |-> D([fingerprint |-> job.fingerprint,
                                            ocr_mode |-> S("auto")])]) >>
           r == Run(p, calls)
       IN  IF ~job.source_path \/ ~Truthy(job.source_channel) \/ ~Truthy(job.fingerprint)
           THEN /\ SetRaised(p, Error("ValueError", "", "", "payload", FALSE))
                /\ UNCHANGED <<entries, clock>>
           ELSE /\ Commit(p, r, calls)
                /\ IF r.ok THEN SetPc(p, "transform") ELSE SetRaised(p, r.err)
    /\ UNCHANGED <<backend, fingerprint_index, jobs, staged, incoming, redeliveries, txn, last>>

\* handle after extract_document returned
ExtractionSucceed(p, text) ==
    /\ procs[p].kind = "extraction" /\ procs[p].pc = "transform"
    /\ LET rolled == IF IsStaged(p)
                     THEN << StageEvent("extraction_file_rolled", "extraction_complete"),
                             merge_capture_metadata(
                                 [document |-> D([processed_path |-> S("processed")])]) >>
                     ELSE << >>
           calls == << merge_capture_metadata([document |-> D([segment_count |-> N(0)])]),
                       record_extraction_result(S(text), _build_verbatim_preview(text)),
                       update_pipeline_status("extraction_complete"),
                       StageEvent("extraction_completed", "extraction_complete") >> \o rolled
           r == Run(p, calls)
       IN  /\ Commit(p, r, calls)
           /\ IF r.ok
              THEN /\ SetPc(p, "done")
                   /\ staged' = staged \ {FileOf(p)}
                   /\ jobs' = Append(jobs, Job("echo.normalize_entry", procs[p].entry_id,
                                               None, None, "document_extraction"))
              ELSE /\ SetRaised(p, r.err)
                   /\ UNCHANGED <<staged, jobs>>
    /\ UNCHANGED <<backend, fingerprint_index, incoming, redeliveries, txn, last>>

\* handle after extract_document raised: _handle_failure, then re-raise
ExtractionFail(p, outcome) ==
    /\ procs[p].kind = "extraction" /\ procs[p].pc = "transform"
    /\ LET rolled == IF IsStaged(p)
                     THEN << StageEvent("extraction_file_rolled", "extraction_failed") >>
                     ELSE << >>
           calls == << record_extraction_failure(outcome.code, outcome.retryable),
                       update_pipeline_status("extraction_failed"),
                       StageEvent("extraction_failed", "extraction_failed") >>
                    \o rolled \o
                    << merge_capture_metadata(
                           LastErrorPatch("extraction", outcome.code, outcome.retryable)) >>
           r == Run(p, calls)
       IN  /\ Commit(p, r, calls)
           /\ IF r.ok
              THEN /\ SetRaised(p, Error("DocumentExtractionError", "", "", outcome.code,
                                         outcome.retryable))
                   /\ staged' = staged \ {FileOf(p)}
              ELSE /\ SetRaised(p, r.err)
                   /\ UNCHANGED staged
    /\ UNCHANGED <<backend, fingerprint_index, jobs, incoming, redeliveries, txn, last>>

(***************************************************************************)
(* normalization_worker.py                                                 *)
(***************************************************************************)
_SUPPORTED_SOURCES == {"transcription", "document_extraction"}

\* _normalize_text on the texts exercised: surrounding whitespace is stripped
NormalizedText(raw_text) ==
    CASE raw_text = " hello " -> "hello"
      [] raw_text = " " -> ""
      [] OTHER -> raw_text

\* _handle_failure of the normalization worker
NormalizationFailureCalls(error_code) ==
    << record_normalization_failure(error_code, FALSE),
       update_pipeline_status("normalization_failed"),
       StageEvent("normalization_failed", "normalization_failed"),
       merge_capture_metadata(
           [ingest_state |-> S("failed")] @@ LastErrorPatch("normalization", error_code, FALSE)) >>

\* handle, the error the normalizer ends with on raw_text ("" for none)
NormalizationErrorCode(raw_text) ==
    IF ~Truthy(raw_text) THEN "raw_text_missing"
    ELSE IF NormalizedText(raw_text.v) = "" THEN "normalization_no_content"
    ELSE ""

\* handle, the gateway calls after the text was read: the failure path, or
\* the result, normalization_complete, the completed event and the patch
NormalizationCalls(raw_text, error_code) ==
    IF error_code # "" THEN NormalizationFailureCalls(error_code)
    ELSE << record_normalization_result(S(NormalizedText(raw_text.v))),
            update_pipeline_status("normalization_complete"),
            StageEvent("normalization_completed", "normalization_complete"),
            merge_capture_metadata(
                [ ingest_state |-> S("processing_semantics"),
                  normalization |-> D([profile |-> S("standard")]) ]) >>

\* A handler end that stores the row but hands nothing to the next stage
NormalizationEndWithoutHandoff(p, r2, calls, error_code) ==
    /\ Commit(p, r2, calls)
    /\ IF ~r2.ok THEN SetRaised(p, r2.err)
       ELSE IF error_code # ""
       THEN SetRaised(p, Error("NormalizationError", "", "", error_code, FALSE))
       ELSE SetPc(p, "done")
    /\ UNCHANGED jobs

\* handle, its end: the row is stored, the error re-raised or the semantic
\* job enqueued
NormalizationEnd(p, r2, calls, error_code) ==
    /\ Commit(p, r2, calls)
    /\ IF ~r2.ok THEN SetRaised(p, r2.err) /\ UNCHANGED jobs
       ELSE IF error_code # ""
       THEN /\ SetRaised(p, Error("NormalizationError", "", "", error_code, FALSE))
            /\ UNCHANGED jobs
       ELSE /\ SetPc(p, "done")
            /\ jobs' = Append(jobs, Job("echo.semantic_enrich", procs[p].entry_id,
                                        None, None, "normalization"))

\* handle, after normalization_in_progress was accepted (r1)
NormalizationBody(p, r1, begin, raw_text) ==
    NormalizationEnd(
        p,
        RunCalls(r1.entry,
                 NormalizationCalls(raw_text, NormalizationErrorCode(raw_text)),
                 clock + Len(begin)),
        begin \o NormalizationCalls(raw_text, NormalizationErrorCode(raw_text)),
        NormalizationErrorCode(raw_text))

\* handle, from its first gateway call on
NormalizationRun(p, job, r1, begin) ==
    IF ~r1.ok
    THEN /\ Commit(p, r1, begin)
         /\ SetRaised(p, r1.err)
         /\ UNCHANGED jobs
    ELSE NormalizationBody(p, r1, begin,
                           IF job.source = "transcription" THEN r1.entry.transcription_text
                           ELSE r1.entry.extracted_text)

\* handle: the whole handler (its transform is local)
NormalizationHandle(p) ==
    /\ procs[p].kind = "normalization" /\ procs[p].pc = "start"
    /\ LET job == jobs[procs[p].jid]
           begin == << update_pipeline_status("normalization_in_progress"),
                       StageEvent("normalization_started", "normalization_in_progress"),
                       merge_capture_metadata([ingest_state |-> S("processing_normalization")]) >>
       IN  IF job.source \notin _SUPPORTED_SOURCES
           THEN /\ SetRaised(p, Error("ValueError", "", "", "payload", FALSE))
                /\ UNCHANGED <<entries, clock, jobs>>
           ELSE NormalizationRun(p, job, Run(p, begin), begin)
    /\ UNCHANGED <<backend, fingerprint_index, staged, incoming, redeliveries, txn, last>>

(***************************************************************************)
(* semantic_worker.py                                                      *)
(***************************************************************************)
\* max(1, int(_SUMMARY_CONFIG.get("max_retry_attempts", 2) or 2))
max_attempts == 2

\* _handle_failure of the semantic worker
SemanticFailureCalls(error_code, retryable) ==
    << update_pipeline_status("semantic_failed"),
       StageEvent("semantic_failed", "semantic_failed"),
       merge_capture_metadata(
           [ last_error |-> D([ stage |-> S("semantics"), code |-> S(error_code),
                                retryable |-> B(retryable),
                                operation |-> S("summarize_v1") ]) ]) >>

\* handle up to the retry loop: the entry is read, then semantic_in_progress,
\* the started event and the normalized_text guard
SemanticStart(p) ==
    /\ procs[p].kind = "semantic" /\ procs[p].pc = "start"
    /\ LET entry == entries[procs[p].entry_id]
           missing == ~Truthy(entry.normalized_text)
           calls == << update_pipeline_status("semantic_in_progress"),
                       StageEvent("semantic_started", "semantic_in_progress") >>
                    \o (IF missing
                        THEN SemanticFailureCalls("semantic_missing_normalized_text", FALSE)
                        ELSE << >>)
           r == Run(p, calls)
       IN  /\ Commit(p, r, calls)
           /\ IF ~r.ok THEN SetRaised(p, r.err)
              ELSE IF missing
              THEN SetRaised(p, Error("SemanticWorkerError", "", "",
                                      "semantic_missing_normalized_text", FALSE))
              ELSE SetPc(p, "attempt")
    /\ UNCHANGED <<backend, fingerprint_index, jobs, staged, incoming, redeliveries, txn, last>>

\* One pass of the retry loop in which generate_semantic_response raises
\* SemanticGatewayError: retry, or _handle_failure and raise
SemanticAttemptFail(p, outcome) ==
    /\ procs[p].kind = "semantic" /\ procs[p].pc = "attempt"
    /\ LET attempts == procs[p].attempts + 1
           failures == procs[p].retryable_failures + (IF outcome.retryable THEN 1 ELSE 0)
           should_retry == outcome.retryable /\ attempts < max_attempts
           calls == IF should_retry THEN << >>
                    ELSE SemanticFailureCalls(outcome.code, outcome.retryable)
           Finish(r) ==
               /\ Commit(p, r, calls)
               /\ procs' = [procs EXCEPT
                      ![p].attempts = attempts,
                      ![p].retryable_failures = failures,
                      ![p].exc = Error("SemanticGatewayError", "", "",
                                       outcome.code, outcome.retryable),
                      ![p].pc = IF should_retry THEN "attempt" ELSE "raised",
                      ![p].error = IF should_retry THEN NoError
                                   ELSE IF ~r.ok THEN r.err
                                   ELSE Error("SemanticWorkerError", "", "",
                                              outcome.code, outcome.retryable)]
       IN  Finish(Run(p, calls))
    /\ UNCHANGED <<backend, fingerprint_index, jobs, staged, incoming, redeliveries, txn, last>>

\* The pass in which generate_semantic_response returns: save_summary,
\* save_classification when both labels came back, semantic_complete, the
\* completed event and the semantics metadata patch
SemanticAttemptSucceed(p, classified) ==
    /\ procs[p].kind = "semantic" /\ procs[p].pc = "attempt"
    /\ LET attempts == procs[p].attempts + 1
           calls == << save_summary(S("summary")) >>
                    \o (IF classified
                        THEN << save_classification(S("note"), S("general")) >> ELSE << >>)
                    \o << update_pipeline_status("semantic_complete"),
                          StageEvent("semantic_completed", "semantic_complete"),
                          merge_capture_metadata(
                              [semantics |-> D([attempts |-> N(attempts)])]) >>
           r == Run(p, calls)
       IN  /\ Commit(p, r, calls)
           /\ procs' = [procs EXCEPT ![p].attempts = attempts,
                                     ![p].pc = IF r.ok THEN "done" ELSE "raised",
                                     ![p].error = r.err]
    /\ UNCHANGED <<backend, fingerprint_index, jobs, staged, incoming, redeliveries, txn, last>>

(***************************************************************************)
(* tests/unit/test_semantic_worker.py: an Entry advanced through the        *)
(* gateway to a point of its lifecycle                                     *)
(***************************************************************************)
AudioPath ==
    << "queued_for_transcription", "transcription_in_progress", "transcription_complete",
       "queued_for_normalization", "normalization_in_progress", "normalization_complete",
       "queued_for_semantics", "semantic_in_progress", "semantic_complete" >>
DocumentPath ==
    << "queued_for_extraction", "extraction_in_progress", "extraction_complete" >>
FailedPath ==
    << "queued_for_transcription", "transcription_in_progress", "transcription_failed" >>

\* _advance_pipeline_statuses: update_pipeline_status for each status in turn
RECURSIVE _advance_pipeline_statuses(_, _, _)
_advance_pipeline_statuses(record, statuses, timestamp) ==
    IF statuses = << >> THEN record
    ELSE _advance_pipeline_statuses(
             _apply_pipeline_transition(record, Head(statuses), timestamp + 1).entry,
             Tail(statuses), timestamp + 1)

\* create_entry(pipeline_status=INGESTED) of the helper, as entry 1 at time 1
IngestedEntry(source_type, source_channel, fingerprint) ==
    _bootstrap_capture_metadata(
        Entry_new(1, source_type, source_channel, fingerprint,
                  [fingerprint_algo |-> S("sha256")], "ingested", 1))

\* _create_semantics_ready_entry: queued_for_semantics, with or without
\* a normalization result
_create_semantics_ready_entry(record, normalized_text, timestamp) ==
    LET r1 == _advance_pipeline_statuses(record, SubSeq(AudioPath, 1, 5), timestamp)
        r2 == IF normalized_text = None THEN r1
              ELSE with_normalization_result(r1, normalized_text, timestamp + 6)
    IN  _advance_pipeline_statuses(r2, SubSeq(AudioPath, 6, 7), timestamp + 6)

\* The helper run against the store, followed by worker.handle({"entry_id"})
SemanticsReadyRun(normalized_text) ==
    /\ HarnessRuns = {}
    /\ Quiescent
    /\ LET r == create_entry("audio", "watch_audio", "sem-fp-1", "ingested", clock + 1)
           p0 == Proc("harness", "done", 0, 0, "sem-fp-1", "watch_audio", "audio")
       IN  IF r.ok
           THEN /\ StoreNew(_create_semantics_ready_entry(r.entry, normalized_text, clock + 1))
                /\ procs' = Append(procs, [p0 EXCEPT !.entry_id = r.entry.entry_id])
                /\ jobs' = Append(jobs, Job("echo.semantic_enrich", r.entry.entry_id,
                                            None, None, ""))
           ELSE /\ procs' = Append(procs, [p0 EXCEPT !.pc = "raised", !.error = r.err])
                /\ UNCHANGED <<entries, fingerprint_index, jobs>>
    /\ clock' = clock + 9
    /\ UNCHANGED <<backend, staged, incoming, redeliveries, txn, last>>

\* Entries at every point of the audio lifecycle, the document first stage
\* and a failed first stage
Lifecycles(source_channel, fingerprint) ==
    LET audio == IngestedEntry("audio", source_channel, fingerprint)
        document == IngestedEntry("document", source_channel, fingerprint)
    IN  { _advance_pipeline_statuses(audio, SubSeq(AudioPath, 1, n), 1) : n \in 0..Len(AudioPath) }
        \cup { _advance_pipeline_statuses(document, DocumentPath, 1),
               _advance_pipeline_statuses(audio, FailedPath, 1) }

(***************************************************************************)
(* The pipeline: the harness runs, the job queue and the four workers      *)
(***************************************************************************)
Backends == {"memory", "postgres"}
\* The concurrent callers of the gateway: two workers or API requests
Clients == {"c1", "c2"}
NoTxn == [c \in Clients |-> [open |-> FALSE]]
NoCall == [op |-> "none", n |-> 0]

Init ==
    /\ backend \in Backends
    /\ entries = << >>
    /\ fingerprint_index = << >>
    /\ clock = 0
    /\ jobs = << >>
    /\ procs = << >>
    /\ staged = {}
    /\ incoming = {}
    /\ redeliveries = 0
    /\ txn = NoTxn
    /\ last = NoCall

Workers ==
    \/ \E p \in DOMAIN procs : TranscriptionStart(p)
    \/ \E p \in DOMAIN procs, text \in TranscriptTexts : TranscriptionSucceed(p, text)
    \/ \E p \in DOMAIN procs, outcome \in ErrorOutcomes : TranscriptionFail(p, outcome)
    \/ \E p \in DOMAIN procs : ExtractionStart(p)
    \/ \E p \in DOMAIN procs, text \in TranscriptTexts : ExtractionSucceed(p, text)
    \/ \E p \in DOMAIN procs, outcome \in ErrorOutcomes : ExtractionFail(p, outcome)
    \/ \E p \in DOMAIN procs : NormalizationHandle(p)
    \/ \E p \in DOMAIN procs : SemanticStart(p)
    \/ \E p \in DOMAIN procs, outcome \in ErrorOutcomes : SemanticAttemptFail(p, outcome)
    \/ \E p \in DOMAIN procs, classified \in BOOLEAN : SemanticAttemptSucceed(p, classified)

Next ==
    \/ \E prof \in HarnessProfiles, fingerprint \in Fingerprints : HarnessRun(prof, fingerprint)
    \/ \E normalized_text \in {None, S("hello")} : SemanticsReadyRun(normalized_text)
    \/ \E j \in DOMAIN jobs : Deliver(j)
    \/ \E j \in DOMAIN jobs : Redeliver(j)
    \/ Workers

Spec == Init /\ [][Next]_vars

(***************************************************************************)
(* The pipeline on an at-least-once queue: every message may reach its     *)
(* worker a second time, whatever the other messages did                   *)
(***************************************************************************)
\* A second delivery of a message delivered once
DeliverAgain(j) ==
    /\ jobs[j].deliveries = 1
    /\ Spawn(j)
    /\ UNCHANGED <<backend, entries, fingerprint_index, clock, staged, incoming,
                   redeliveries, txn, last>>

AtLeastOnceNext ==
    \/ \E prof \in HarnessProfiles, fingerprint \in Fingerprints : HarnessRun(prof, fingerprint)
    \/ \E normalized_text \in {None, S("hello")} : SemanticsReadyRun(normalized_text)
    \/ \E j \in DOMAIN jobs : Deliver(j)
    \/ \E j \in DOMAIN jobs : DeliverAgain(j)
    \/ Workers

AtLeastOnceSpec == Init /\ [][AtLeastOnceNext]_vars

(***************************************************************************)
(* Capture: watchers and capture requests against a store that may hold    *)
(* an Entry for the same input at a point of its lifecycle                 *)
(***************************************************************************)
\* The store holding one Entry, with the index the gateway built for it
Seeded(e) ==
    /\ entries = <<e>>
    /\ fingerprint_index = [k \in {<<e.capture_fingerprint, e.source_channel>>} |-> 1]
    /\ clock = e.updated_at

CaptureInit ==
    /\ backend \in Backends
    /\ \/ entries = << >> /\ fingerprint_index = << >> /\ clock = 0
       \/ \E e \in Lifecycles("watch_folder_audio", "fp1") : Seeded(e)
    /\ jobs = << >>
    /\ procs = << >>
    /\ staged = {}
    /\ incoming = {}
    /\ redeliveries = 0
    /\ txn = NoTxn
    /\ last = NoCall

CaptureNext ==
    \/ \E fingerprint \in Fingerprints : DropFile(fingerprint)
    \/ \E prof \in CaptureProfiles, fingerprint \in Fingerprints :
           CaptureEvaluate(prof, fingerprint)
    \/ \E p \in DOMAIN procs : CaptureMove(p)
    \/ \E p \in DOMAIN procs : CaptureCreate(p)
    \/ \E p \in DOMAIN procs : CaptureEnqueue(p)
    \/ \E p \in DOMAIN procs : CaptureUpdate(p)
    \/ \E j \in DOMAIN jobs : Deliver(j)
    \/ \E p \in DOMAIN procs : TranscriptionStart(p)
    \/ \E p \in DOMAIN procs : ExtractionStart(p)

CaptureSpec == CaptureInit /\ [][CaptureNext]_vars

(***************************************************************************)
(* The gateway under direct calls by concurrent clients                    *)
(***************************************************************************)
\* The calls the clients issue on the stored Entry
GatewayCalls ==
    { update_pipeline_status(status) : status \in PIPELINE_STATUS }
    \cup { record_capture_event("note_added", None),
           merge_capture_metadata([ingest_state |-> S("processing_extraction")]),
           merge_capture_metadata([pipeline_history |-> L(<< >>)]),
           record_transcription_failure("internal_error", FALSE) }

\* record_<stage>_failure is one UPDATE statement; every other mutation of
\* the table-backed gateway fetches the row and then writes it.
SingleStatement(call) ==
    call.op \in { "record_transcription_failure", "record_extraction_failure",
                  "record_normalization_failure" }

Lifecycle == Lifecycles("watch_folder_audio", "fp1")

GatewayInit ==
    /\ backend \in Backends
    /\ \E e \in Lifecycle : Seeded(e)
    /\ jobs = << >>
    /\ procs = << >>
    /\ staged = {}
    /\ incoming = {}
    /\ redeliveries = 0
    /\ txn = NoTxn
    /\ last = NoCall

\* The record of a completed call: the row it fetched, the row as it was
\* just before the call returned, and what the call returned or raised
Completed(c, call, fetched, before, r) ==
    [ op |-> call.op, n |-> last.n, client |-> c, call |-> call, fetched |-> fetched,
      before |-> before, ok |-> r.ok, err |-> r.err ]

\* A call that runs without interleaving: any call of the in-memory gateway,
\* a single-statement call of the table-backed one
GwCall(c, call) ==
    /\ last.n < MaxGatewayCalls
    /\ ~txn[c].open
    /\ backend = "memory" \/ SingleStatement(call)
    /\ LET r == GatewayCall(call, entries[1], clock + 1)
       IN  /\ entries' = [entries EXCEPT ![1] = r.entry]
           /\ last' = [Completed(c, call, entries[1], entries[1], r) EXCEPT !.n = last.n + 1]
    /\ clock' = clock + 1
    /\ UNCHANGED <<backend, fingerprint_index, jobs, procs, staged, incoming, redeliveries, txn>>

\* with self._engine.begin(): current = self._fetch_entry(conn, entry_id)
GwBegin(c, call) ==
    /\ last.n < MaxGatewayCalls
    /\ ~txn[c].open
    /\ backend = "postgres" /\ ~SingleStatement(call)
    /\ txn' = [txn EXCEPT ![c] = [open |-> TRUE, call |-> call, current |-> entries[1]]]
    /\ last' = [op |-> "begin", n |-> last.n + 1]
    /\ UNCHANGED <<backend, entries, fingerprint_index, clock, jobs, procs, staged, incoming,
                   redeliveries>>

\* The rest of the transaction: the values computed from the fetched row
\* are written by the UPDATE statement, or the error rolls it back
GwCommit(c) ==
    /\ txn[c].open
    /\ LET r == PgApply(txn[c].call, entries[1], txn[c].current, clock + 1)
       IN  /\ entries' = [entries EXCEPT ![1] = r.entry]
           /\ last' = Completed(c, txn[c].call, txn[c].current, entries[1], r)
    /\ txn' = [txn EXCEPT ![c] = [open |-> FALSE]]
    /\ clock' = clock + 1
    /\ UNCHANGED <<backend, fingerprint_index, jobs, procs, staged, incoming, redeliveries>>

\* evaluate_idempotency(gateway, fingerprint, source_channel)
GwEvaluate(c, fingerprint, source_channel) ==
    /\ last.n < MaxGatewayCalls
    /\ ~txn[c].open
    /\ last' = [ op |-> "evaluate_idempotency", n |-> last.n + 1, client |-> c,
                 existing |-> find_by_fingerprint(fingerprint, source_channel),
                 decision |-> evaluate_idempotency(fingerprint, source_channel) ]
    /\ UNCHANGED <<backend, entries, fingerprint_index, clock, jobs, procs, staged, incoming,
                   redeliveries, txn>>

GatewayNext ==
    \/ \E c \in Clients, call \in GatewayCalls : GwCall(c, call)
    \/ \E c \in Clients, call \in GatewayCalls : GwBegin(c, call)
    \/ \E c \in Clients : GwCommit(c)
    \/ \E c \in Clients : GwEvaluate(c, "fp1", "watch_folder_audio")

GatewaySpec == GatewayInit /\ [][GatewayNext]_vars

(***************************************************************************)
(* The contract of the pure functions and of create_entry: one call on a   *)
(* fresh gateway, its arguments drawn from the values callers pass         *)
(***************************************************************************)
\* States a caller can hand to resolve_next_ingest_state: the table's states,
\* a missing state ("" stands for None and the empty string) and the value
\* the normalization worker writes
ResolveStates == IngestStates \cup {"", "processing_semantics"}

\* resolve_next_ingest_state(current_ingest_state, pipeline_status)
ResolveCall(current_ingest_state, pipeline_status) ==
    /\ last = NoCall
    /\ last' = [ op |-> "resolve_next_ingest_state", n |-> 1,
                 current_ingest_state |-> current_ingest_state,
                 pipeline_status |-> pipeline_status,
                 ok |-> ResolveAccepts(current_ingest_state, pipeline_status),
                 result |-> IF ResolveAccepts(current_ingest_state, pipeline_status)
                            THEN resolve_next_ingest_state(current_ingest_state,
                                                           pipeline_status)
                            ELSE "" ]
    /\ UNCHANGED <<backend, entries, fingerprint_index, clock, jobs, procs, staged,
                   incoming, redeliveries, txn>>

\* The metadata handed to create_entry: what the watcher builds, and what an
\* API client can add under capture_metadata
CreateMetadata ==
    { [fingerprint_algo |-> S("sha256")],
      [fingerprint_algo |-> S("sha256"), ingest_state |-> S("processed")],
      [fingerprint_algo |-> S("sha256"), note |-> S("memo")] }

\* create_entry(source_type="audio", source_channel=..., metadata=...,
\* pipeline_status=...) on the fresh gateway
CreateCall(fingerprint, capture_metadata, pipeline_status) ==
    /\ last = NoCall
    /\ LET Finish(r) ==
               /\ IF r.ok THEN StoreNew(r.entry)
                  ELSE UNCHANGED <<entries, fingerprint_index>>
               /\ last' = [ op |-> "create_entry", n |-> 1, fingerprint |-> fingerprint,
                            capture_metadata |-> capture_metadata,
                            pipeline_status |-> pipeline_status,
                            ok |-> r.ok, entry |-> r.entry, err |-> r.err ]
       IN  Finish(create_entry_with_metadata("audio", "watch_folder_audio", fingerprint,
                                             capture_metadata, pipeline_status, clock + 1))
    /\ clock' = clock + 1
    /\ UNCHANGED <<backend, jobs, procs, staged, incoming, redeliveries, txn>>

ContractNext ==
    \/ \E current_ingest_state \in ResolveStates, pipeline_status \in PIPELINE_STATUS :
          ResolveCall(current_ingest_state, pipeline_status)
    \/ \E fingerprint \in {"", "abc"}, capture_metadata \in CreateMetadata,
          pipeline_status \in PIPELINE_STATUS :
          CreateCall(fingerprint, capture_metadata, pipeline_status)

ContractSpec == Init /\ [][ContractNext]_vars

(***************************************************************************)
(* One caller of the gateway: an Entry is created and a sequence of        *)
(* gateway operations is applied to it, one after the other                *)
(***************************************************************************)
\* The operations issued on the stored Entry
StoreCalls ==
    { record_transcription_result(S("hello"), None),
      record_transcription_failure("internal_error", FALSE),
      record_extraction_result(S("hello"), None),
      record_extraction_failure("internal_error", FALSE),
      record_normalization_result(S("hello")),
      record_normalization_failure("normalization_no_content", FALSE),
      save_classification(S("note"), S("general")),
      save_classification(S(""), S("general")),
      update_entry_taxonomy(None, S("general")),
      update_entry_taxonomy(None, None),
      save_summary(S("summary")),
      update_pipeline_status("queued_for_transcription"),
      update_pipeline_status("transcription_complete"),
      record_capture_event("note_added", None),
      merge_capture_metadata([note |-> S("memo")]) }

\* The other implementation of the gateway contract
Twin == IF backend = "memory" THEN "postgres" ELSE "memory"

\* gateway.create_entry(...) of the gateway tests has returned
StoreInit ==
    /\ backend \in Backends
    /\ Seeded(IngestedEntry("audio", "watch_folder_audio", "fp1"))
    /\ jobs = << >>
    /\ procs = << >>
    /\ staged = {}
    /\ incoming = {}
    /\ redeliveries = 0
    /\ txn = NoTxn
    /\ last = NoCall

\* gateway.<op>(entry_id, ...) run to completion; twin is what the other
\* backend returns and stores for the same call on the same stored content
StoreCall(call) ==
    /\ last.n < MaxStoreCalls
    /\ LET Finish(r, twin) ==
               /\ entries' = [entries EXCEPT ![1] = r.entry]
               /\ last' = [ op |-> call.op, n |-> last.n + 1, call |-> call,
                            before |-> entries[1], ok |-> r.ok, err |-> r.err,
                            entry |-> r.entry, twin |-> twin ]
       IN  Finish(GatewayCall(call, entries[1], clock + 1),
                  GatewayCallOn(Twin, call, entries[1], clock + 1))
    /\ clock' = clock + 1
    /\ UNCHANGED <<backend, fingerprint_index, jobs, procs, staged, incoming,
                   redeliveries, txn>>

\* gateway.create_entry(...) for an input, captured before or not
StoreCreate(fingerprint) ==
    /\ last.n < MaxStoreCalls
    /\ LET Finish(r, twin) ==
               /\ IF r.ok THEN StoreNew(r.entry)
                  ELSE UNCHANGED <<entries, fingerprint_index>>
               /\ last' = [ op |-> "create_entry", n |-> last.n + 1,
                            fingerprint |-> fingerprint,
                            before |-> entries[1], ok |-> r.ok, err |-> r.err,
                            entry |-> r.entry, twin |-> twin ]
       IN  Finish(create_entry("audio", "watch_folder_audio", fingerprint, "ingested",
                               clock + 1),
                  create_entry_on(Twin, "audio", "watch_folder_audio", fingerprint,
                                  [fingerprint_algo |-> S("sha256")], "ingested", clock + 1))
    /\ clock' = clock + 1
    /\ UNCHANGED <<backend, jobs, procs, staged, incoming, redeliveries, txn>>

StoreNext ==
    \/ \E call \in StoreCalls : StoreCall(call)
    \/ \E fingerprint \in {"fp1", "fp2"} : StoreCreate(fingerprint)

StoreSpec == StoreInit /\ [][StoreNext]_vars

(***************************************************************************)
(* One caller of the gateway naming Entries by id: the id may be that of   *)
(* a stored Entry or of none                                               *)
(***************************************************************************)
\* The entry ids callers pass: 1 is stored, 2 is stored once a second Entry
\* was created, 3 is never stored
EntryIds == {1, 2, 3}

get_entry == Call("get_entry", "", "", None, EmptyDict, None, "", FALSE)

\* One call of every operation that takes an entry_id
EntryOps ==
    { get_entry,
      update_pipeline_status("queued_for_transcription"),
      record_transcription_result(S("hello"), None),
      record_transcription_failure("internal_error", FALSE),
      record_extraction_result(S("hello"), None),
      record_extraction_failure("internal_error", FALSE),
      record_normalization_result(S("hello")),
      record_normalization_failure("normalization_no_content", FALSE),
      save_summary(S("summary")),
      save_classification(S("note"), S("general")),
      update_entry_taxonomy(None, S("general")),
      record_capture_event("note_added", None),
      merge_capture_metadata([note |-> S("memo")]),
      merge_capture_metadata(EmptyDict) }

\* A store that creates the row an unknown entry_id names
UpsertById(store, call, entry_id, timestamp) ==
    Ok(IngestedEntry("audio", "watch_folder_audio", "fp1"))

\* gateway.<op>(entry_id, ...): self._entries.get(entry_id) is None, or
\* _fetch_entry / UPDATE ... WHERE entry_id = :id RETURNING finds no row ->
\* KeyError; otherwise the operation on the row. get_entry returns the row.
GatewayCallById(store, call, entry_id, timestamp) ==
    IF entry_id \notin DOMAIN entries
    THEN [ok |-> FALSE, entry |-> None, err |-> Error("KeyError", "", "", "", FALSE)]
    ELSE IF call.op = "get_entry" THEN Ok(entries[entry_id])
    ELSE GatewayCallOn(store, call, entries[entry_id], timestamp)

\* gateway.<op>(entry_id, ...) run to completion
EntryCall(call, entry_id) ==
    /\ last.n < MaxStoreCalls
    /\ LET Finish(r) ==
               /\ entries' = IF r.ok /\ entry_id \in DOMAIN entries
                             THEN [entries EXCEPT ![entry_id] = r.entry]
                             ELSE entries
               /\ last' = [ op |-> call.op, n |-> last.n + 1, call |-> call,
                            entry_id |-> entry_id, ok |-> r.ok, err |-> r.err,
                            entry |-> r.entry ]
       IN  Finish(GatewayCallById(backend, call, entry_id, clock + 1))
    /\ clock' = clock + 1
    /\ UNCHANGED <<backend, fingerprint_index, jobs, procs, staged, incoming,
                   redeliveries, txn>>

EntryNext ==
    \/ \E call \in EntryOps, entry_id \in EntryIds : EntryCall(call, entry_id)
    \/ StoreCreate("fp2")

EntrySpec == StoreInit /\ [][EntryNext]_vars

(***************************************************************************)
(* merge_capture_metadata: patches merged one after the other into the     *)
(* capture metadata of a stored Entry                                      *)
(***************************************************************************)
\* Patches with None, scalars (falsy ones too) and dicts, on keys the
\* metadata holds as scalars (fingerprint_algo), as dicts (last_transition,
\* note once merged) or not at all
MergePatches ==
    { [fingerprint_algo |-> None],
      [fingerprint_algo |-> S("md5")],
      [fingerprint_algo |-> D([name |-> S("md5"), bits |-> None])],
      [last_transition |-> D([pipeline_status |-> None, occurred_at |-> N(9)])],
      [last_transition |-> D([pipeline_status |-> S(""), from_ingest_state |-> None])],
      [note |-> D([author |-> S("ann"), text |-> None])],
      [note |-> D([author |-> None, text |-> S("memo"),
                   tags |-> D([first |-> S("a"), second |-> None])])],
      [note |-> D([tags |-> D([first |-> None, second |-> S("b")])])],
      [note |-> S("memo"), fingerprint_algo |-> None],
      [note |-> None] }

MergeNext ==
    \E patch \in MergePatches : EntryCall(merge_capture_metadata(patch), 1)

MergeSpec == StoreInit /\ [][MergeNext]_vars

(***************************************************************************)
(* The idempotency lookup of the capture paths against a store that holds  *)
(* no Entry or one at a point of its lifecycle, and the create_entry that  *)
(* follows an allowed lookup                                               *)
(***************************************************************************)
\* The (fingerprint, source_channel) pairs the capture paths look up
CapturePairs ==
    { <<fingerprint, prof.source_channel>> : fingerprint \in Fingerprints,
                                             prof \in CaptureProfiles }

\* decision = evaluate_idempotency(gateway, fingerprint, source_channel)
LookupEvaluate(pair) ==
    /\ last.n < MaxGatewayCalls
    /\ last' = [ op |-> "evaluate_idempotency", n |-> last.n + 1, pair |-> pair,
                 decision |-> evaluate_idempotency(pair[1], pair[2]) ]
    /\ UNCHANGED <<backend, entries, fingerprint_index, clock, jobs, procs, staged, incoming,
                   redeliveries, txn>>

\* if decision.should_process: create_entry(..., pipeline_status="captured")
LookupCreate ==
    /\ last.op = "evaluate_idempotency"
    /\ last.decision.should_process
    /\ LET Finish(r) ==
               /\ IF r.ok THEN StoreNew(r.entry)
                  ELSE UNCHANGED <<entries, fingerprint_index>>
               /\ last' = [ op |-> "create_entry", n |-> last.n, pair |-> last.pair,
                            ok |-> r.ok, err |-> r.err ]
           prof == CHOOSE prof \in CaptureProfiles : prof.source_channel = last.pair[2]
       IN  Finish(create_entry(prof.source_type, last.pair[2], last.pair[1], "captured",
                               clock + 1))
    /\ clock' = clock + 1
    /\ UNCHANGED <<backend, jobs, procs, staged, incoming, redeliveries, txn>>

LookupNext ==
    \/ \E pair \in CapturePairs : LookupEvaluate(pair)
    \/ LookupCreate

LookupSpec == CaptureInit /\ [][LookupNext]_vars

(***************************************************************************)
(* Properties                                                              *)
(***************************************************************************)
IsPrefix(s, t) == Len(s) <= Len(t) /\ SubSeq(t, 1, Len(s)) = s

IngestStateOf(e) == _current_ingest_state(e)
TerminalStates == {"processed", "failed"}
FailedStatuses ==
    {"transcription_failed", "extraction_failed", "normalization_failed", "semantic_failed"}
QueuedStatuses ==
    { "queued_for_transcription", "queued_for_extraction", "queued_for_normalization",
      "queued_for_semantics" }
InProgressStatuses ==
    { "transcription_in_progress", "extraction_in_progress", "normalization_in_progress",
      "semantic_in_progress" }

\* capture_metadata.last_error holds stage, code and retryable
HasLastError(e) ==
    LET last_error == Get(e.capture_metadata, "last_error")
    IN  IsDict(last_error) /\ {"stage", "code", "retryable"} \subseteq DOMAIN last_error.v

\* The status is one the table lists for the state
TableAccepts(state, pipeline_status) ==
    /\ state \in DOMAIN PIPELINE_STATUS_TRANSITIONS
    /\ pipeline_status \in DOMAIN PIPELINE_STATUS_TRANSITIONS[state]

\* C1: at every moment every stored Entry's capture_metadata.ingest_state is
\* one of the states of the transition table.
C1_IngestStateInTable ==
    \A id \in DOMAIN entries : IngestStateOf(entries[id]) \in IngestStates

\* The invocations of the stage workers on an Entry
WorkersOn(id) ==
    { p \in DOMAIN procs : procs[p].kind \in WorkerKinds /\ procs[p].entry_id = id }
TransformErrors ==
    {"TranscriptionError", "DocumentExtractionError", "NormalizationError", "SemanticWorkerError"}

\* A run on a captured input has ended: every job was delivered exactly once,
\* every invocation has returned or raised, and no transform failed.
HappyRunEnded(id) ==
    /\ Quiescent
    /\ redeliveries = 0
    /\ \E j \in DOMAIN jobs :
          jobs[j].entry_id = id /\ jobs[j].job_type \in {"transcription", "doc_extraction"}
    /\ \A p \in WorkersOn(id) : procs[p].error.kind \notin TransformErrors

\* C2: when an input is captured, each stage job is delivered exactly once and
\* every transform succeeds, the run ends with the Entry in ingest_state
\* "processed" with a non-null summary.
C2_HappyPathEndsProcessed ==
    \A id \in DOMAIN entries :
        HappyRunEnded(id) =>
            IngestStateOf(entries[id]) = "processed" /\ entries[id].summary # None

\* C3: for any (fingerprint, source_channel) pair at most one Entry is
\* created unless the earlier Entry is in a failed status.
C3_AtMostOneEntryPerInput ==
    \A a, b \in DOMAIN entries :
        ( /\ a < b
          /\ entries[a].capture_fingerprint = entries[b].capture_fingerprint
          /\ entries[a].source_channel = entries[b].source_channel )
        => entries[a].pipeline_status \in FailedStatuses

\* C4: an update_pipeline_status whose pipeline_status the Entry's ingest_state
\* does not accept fails with an error naming the status and the state, and
\* the stored Entry is exactly as it was before the call, on both backends.
C4_IllegalTransitionRejected ==
    ( /\ last.op = "update_pipeline_status"
      /\ ~TableAccepts(IngestStateOf(last.fetched), last.call.status) )
    => /\ ~last.ok
       /\ last.err.kind = "ValueError"
       /\ last.err.status = last.call.status
       /\ last.err.state = IngestStateOf(last.fetched)
       /\ entries[1] = last.before

\* C4 witness: an illegal status was given to the table-backed gateway for an
\* Entry that has made transitions, and to the in-memory one likewise.
C4_Witness ==
    /\ last.op = "update_pipeline_status"
    /\ ~TableAccepts(IngestStateOf(last.fetched), last.call.status)
    /\ Len(HistoryOf(last.fetched)) > 2
    /\ backend = "postgres"

\* C5: when two gateway mutations on the same Entry overlap, the stored Entry
\* afterwards contains the effect of both: an update_pipeline_status or a
\* record_capture_event that completes removes no capture event and no
\* pipeline_history record that another call has stored.
C5_NoLostUpdate ==
    [][ last'.op \in {"update_pipeline_status", "record_capture_event"}
        => /\ IsPrefix(entries[1].capture_events, entries'[1].capture_events)
           /\ IsPrefix(HistoryOf(entries[1]), HistoryOf(entries'[1])) ]_vars

\* The invocation is about to begin handling a job that another invocation
\* has already begun (or finished) handling
IsSecondHandling(p) ==
    /\ procs[p].kind \in WorkerKinds
    /\ procs[p].pc = "start"
    /\ \E q \in DOMAIN procs \ {p} :
          procs[q].jid = procs[p].jid /\ procs[q].pc # "start"

\* C6: handling a job that is delivered a second time leaves the Entry and
\* the enqueued successor jobs as the first handling leaves them: the second
\* handling neither changes the Entry nor enqueues a job.
C6_RedeliveryChangesNothing ==
    [][ \A p \in DOMAIN procs :
            (IsSecondHandling(p) /\ procs'[p] # procs[p])
            => entries' = entries /\ jobs' = jobs ]_vars

\* The stage whose worker writes the status: 1 transcription or extraction,
\* 2 normalization, 3 semantic (0 for the capture and hand-off statuses)
StageOf(pipeline_status) ==
    CASE pipeline_status \in { "transcription_in_progress", "transcription_complete",
                               "transcription_failed", "extraction_in_progress",
                               "extraction_complete", "extraction_failed" } -> 1
      [] pipeline_status \in { "normalization_in_progress", "normalization_complete",
                               "normalization_failed" } -> 2
      [] pipeline_status \in { "semantic_in_progress", "semantic_complete",
                               "semantic_failed" } -> 3
      [] OTHER -> 0
CompleteStatuses ==
    {"transcription_complete", "extraction_complete", "normalization_complete"}

\* A status of a later stage than the given one has been accepted
AdvancedPast(e, stage) ==
    \E i \in 1..Len(HistoryOf(e)) : StageOf(HistoryOf(e)[i].v.pipeline_status.v) > stage

\* C7: once a later stage's status has been accepted, a repeated
\* update_pipeline_status(<stage>_complete) for the earlier stage is rejected
\* with an error and changes nothing.
C7_LateCompleteRejected ==
    ( /\ last.op = "update_pipeline_status"
      /\ last.call.status \in CompleteStatuses
      /\ last.fetched = last.before
      /\ AdvancedPast(last.fetched, StageOf(last.call.status)) )
    => ~last.ok /\ entries[1] = last.before

\* C8: whenever a stage-worker invocation ends by raising an error, the Entry
\* is left with ingest_state "failed" and last_error {stage, code, retryable}.
C8_RaiseLeavesFailed ==
    [][ \A p \in DOMAIN procs :
            ( /\ procs[p].kind \in WorkerKinds
              /\ procs[p].pc # "raised"
              /\ procs'[p].pc = "raised" )
            => /\ IngestStateOf(entries'[procs[p].entry_id]) = "failed"
               /\ HasLastError(entries'[procs[p].entry_id]) ]_vars

\* The Entries created by a capture run
CapturedEntries ==
    { procs[p].entry_id : p \in { q \in Captures : procs[q].entry_id # 0 } }

\* C9: every Entry created by a capture reaches processed or failed once every
\* enqueued job has been delivered and every invocation has ended.
C9_CapturedEntryEndsTerminal ==
    Quiescent => \A id \in CapturedEntries : IngestStateOf(entries[id]) \in TerminalStates

\* C10: evaluate_idempotency refuses (should_process = false, reason
\* existing_entry_active_or_completed, the existing id) whenever the Entry for
\* the pair has a queued, an in-progress or the semantic_complete status.
C10_ActiveOrCompletedRefused ==
    ( /\ last.op = "evaluate_idempotency"
      /\ last.existing # 0
      /\ entries[last.existing].pipeline_status
            \in QueuedStatuses \cup InProgressStatuses \cup {"semantic_complete"} )
    => /\ ~last.decision.should_process
       /\ last.decision.reason = "existing_entry_active_or_completed"
       /\ last.decision.existing_entry_id = last.existing

\* The capture runs found no Entry for the same input when they evaluated
RacingCaptures(p, q) ==
    /\ p # q
    /\ procs[p].fingerprint = procs[q].fingerprint
    /\ procs[p].source_channel = procs[q].source_channel
    /\ procs[p].decision = "no_existing_entry"
    /\ procs[q].decision = "no_existing_entry"

\* C11: when two captures of the same input both pass the idempotency check
\* before either has created its Entry, at most one of them creates an Entry:
\* the store does not come to hold two Entries with the pair.
C11_RaceCreatesOneEntry ==
    \A p, q \in Captures :
        RacingCaptures(p, q) => ~(procs[p].entry_id # 0 /\ procs[q].entry_id # 0)

\* A capture run that was allowed because the Entry it found had failed
IsRecaptureOfFailed(p) ==
    /\ procs[p].kind \in CaptureKinds
    /\ procs[p].decision = "existing_entry_retry_allowed"
    /\ procs[p].existing_status \in FailedStatuses

\* C12: when the existing Entry for the pair is in a failed status, evaluate
\* allows the re-capture and the create_entry that follows succeeds, on both
\* backends: the allowed run is never ended by create_entry's error.
C12_RecaptureOfFailedCreates ==
    \A p \in DOMAIN procs :
        IsRecaptureOfFailed(p)
        => ~(procs[p].pc = "raised" /\ procs[p].error.kind = "IntegrityError")

\* The call repeats the status of the row it read, and the table maps that
\* status back to the row's ingest_state
IsRepeatedStatus(record, pipeline_status) ==
    /\ pipeline_status = record.pipeline_status
    /\ TableAccepts(IngestStateOf(record), pipeline_status)
    /\ PIPELINE_STATUS_TRANSITIONS[IngestStateOf(record)][pipeline_status]
         = IngestStateOf(record)

\* C13: update_pipeline_status with the Entry's current pipeline_status,
\* resolving to the current ingest_state, succeeds and leaves the stored Entry
\* as it was: no history record, no capture event, updated_at unchanged.
C13_RepeatedStatusIsNoOp ==
    ( /\ last.op = "update_pipeline_status"
      /\ IsRepeatedStatus(last.fetched, last.call.status) )
    => /\ last.ok
       /\ entries[1] = last.before
       /\ entries[1].updated_at = last.before.updated_at
       /\ entries[1].capture_events = last.before.capture_events
       /\ HistoryOf(entries[1]) = HistoryOf(last.before)

\* C13 witness: the status of an Entry that has made transitions was applied
\* again through the table-backed gateway
C13_Witness ==
    /\ last.op = "update_pipeline_status"
    /\ IsRepeatedStatus(last.fetched, last.call.status)
    /\ Len(HistoryOf(last.fetched)) > 2
    /\ last.fetched.updated_at < clock
    /\ backend = "postgres"

\* C14: for every gateway operation on an Entry, the capture_events list
\* afterwards is the list before with zero or more events added at the end.
C14_CaptureEventsAppendOnly ==
    [][ \A id \in DOMAIN entries :
            IsPrefix(entries[id].capture_events, entries'[id].capture_events) ]_vars

\* C15: for every gateway operation on an Entry, merge_capture_metadata with
\* any patch included, pipeline_history afterwards is the list before with
\* zero or more records added at the end.
C15_PipelineHistoryAppendOnly ==
    [][ \A id \in DOMAIN entries :
            IsPrefix(HistoryOf(entries[id]), HistoryOf(entries'[id])) ]_vars

\* The last record of the Entry's pipeline_history
LastTransition(e) == HistoryOf(e)[Len(HistoryOf(e))].v

\* C16: pipeline_history holds a record for the status applied at creation,
\* and at every moment its last record's pipeline_status and to_ingest_state
\* equal the Entry's pipeline_status and capture_metadata.ingest_state.
C16_HistoryMirrorsStatus ==
    \A id \in DOMAIN entries :
        /\ Len(HistoryOf(entries[id])) >= 1
        /\ LastTransition(entries[id]).pipeline_status = S(entries[id].pipeline_status)
        /\ LastTransition(entries[id]).to_ingest_state = S(IngestStateOf(entries[id]))

\* The stage jobs of an Entry that wait in the queue or are being handled
InFlightJobs(id) ==
    { j \in DOMAIN jobs :
        /\ jobs[j].entry_id = id
        /\ \/ jobs[j].deliveries = 0
           \/ \E p \in DOMAIN procs :
                 procs[p].kind \in WorkerKinds /\ procs[p].jid = j /\ ~Terminated(p) }

\* C17: at any moment an Entry has at most one stage job in flight (waiting
\* in the queue or being handled by a worker).
C17_OneJobInFlight ==
    \A id \in DOMAIN entries : Cardinality(InFlightJobs(id)) <= 1

\* The job type a stage hands off to ("" for the last stage)
SuccessorOf(kind) ==
    CASE kind \in {"transcription", "extraction"} -> "echo.normalize_entry"
      [] kind = "normalization" -> "echo.semantic_enrich"
      [] OTHER -> ""

\* The step adds one waiting job of the type for the Entry, and only that
EnqueuesOne(job_type, id) ==
    /\ Len(jobs') = Len(jobs) + 1
    /\ SubSeq(jobs', 1, Len(jobs)) = jobs
    /\ jobs'[Len(jobs')].job_type = job_type
    /\ jobs'[Len(jobs')].entry_id = id
    /\ jobs'[Len(jobs')].deliveries = 0

\* C18: a stage-worker invocation that succeeds enqueues exactly one successor
\* job (echo.normalize_entry after transcription or extraction,
\* echo.semantic_enrich after normalization, none after semantic); an
\* invocation that fails, and every other step of a worker, enqueues none.
C18_OneSuccessorOnSuccess ==
    [][ \A p \in DOMAIN procs :
            (procs[p].kind \in WorkerKinds /\ procs'[p] # procs[p])
            => IF procs'[p].pc = "done" /\ SuccessorOf(procs[p].kind) # ""
               THEN EnqueuesOne(SuccessorOf(procs[p].kind), procs[p].entry_id)
               ELSE jobs' = jobs ]_vars

\* C18 witness: a normalization run handed off to the semantic stage, whose
\* invocation then failed in its transform, and nothing else was enqueued
C18_Witness ==
    \E p, q \in DOMAIN procs :
        /\ procs[p].kind = "normalization" /\ procs[p].pc = "done"
        /\ procs[q].kind = "transcription" /\ procs[q].pc = "done"
        /\ \E j \in DOMAIN jobs :
              jobs[j].job_type = "echo.semantic_enrich" /\ jobs[j].source = "normalization"
        /\ \E f \in DOMAIN procs :
              procs[f].kind \in WorkerKinds /\ procs[f].pc = "raised"

\* capture_metadata.last_error.retryable
LastErrorRetryable(e) ==
    LET last_error == Get(e.capture_metadata, "last_error")
    IN  IF IsDict(last_error) THEN Get(last_error.v, "retryable") ELSE None

\* The invocation leaves the retry loop with every attempt having failed
\* with a retryable error
StopsAfterRetryableFailures(p) ==
    /\ procs[p].kind = "semantic"
    /\ procs[p].pc = "attempt"
    /\ procs'[p].pc # "attempt"
    /\ procs'[p].retryable_failures = procs'[p].attempts

\* C19: in one semantic job the transform is invoked at most max_attempts
\* times; when every attempt fails with a retryable error the worker stops
\* after exactly max_attempts attempts and leaves the Entry in ingest_state
\* "failed" with last_error.retryable = true.
C19_RetryCeiling ==
    [][ \A p \in DOMAIN procs :
            /\ procs'[p].attempts <= max_attempts
            /\ StopsAfterRetryableFailures(p)
               => /\ procs'[p].attempts = max_attempts
                  /\ IngestStateOf(entries'[procs[p].entry_id]) = "failed"
                  /\ LastErrorRetryable(entries'[procs[p].entry_id]) = B(TRUE) ]_vars

\* capture_metadata.semantics.attempts
SemanticsAttempts(e) ==
    LET semantics == Get(e.capture_metadata, "semantics")
    IN  IF IsDict(semantics) THEN Get(semantics.v, "attempts") ELSE None

\* C20: after a semantic job in which at least one attempt failed with a
\* retryable error, capture_metadata.semantics.attempts equals the number of
\* transform invocations made in that job, both when a later attempt succeeded
\* and when the attempt ceiling was exhausted.
C20_AttemptsRecorded ==
    [][ \A p \in DOMAIN procs :
            ( /\ procs[p].kind = "semantic"
              /\ procs[p].pc = "attempt"
              /\ procs'[p].pc # "attempt"
              /\ procs'[p].retryable_failures >= 1 )
            => SemanticsAttempts(entries'[procs[p].entry_id]) = N(procs'[p].attempts) ]_vars

\* The step is a pass of the retry loop in which the transform raised a
\* non-retryable SemanticGatewayError
FailsNonRetryable(p) ==
    /\ procs[p].kind = "semantic"
    /\ procs[p].pc = "attempt"
    /\ procs'[p].attempts = procs[p].attempts + 1
    /\ procs'[p].exc.kind = "SemanticGatewayError"
    /\ ~procs'[p].exc.retryable
    /\ procs'[p].retryable_failures = procs[p].retryable_failures

\* C21: when the semantic transform fails with a non-retryable error on any
\* attempt, the worker makes no further attempt, whatever attempt budget
\* remains, and marks the Entry semantic_failed with
\* last_error.retryable = false.
C21_NonRetryableShortCircuits ==
    [][ \A p \in DOMAIN procs :
            FailsNonRetryable(p)
            => /\ procs'[p].pc = "raised"
               /\ entries'[procs[p].entry_id].pipeline_status = "semantic_failed"
               /\ LastErrorRetryable(entries'[procs[p].entry_id]) = B(FALSE) ]_vars

\* The text the normalization job of invocation p reads from Entry e
RawTextOf(p, e) ==
    IF jobs[procs[p].jid].source = "transcription" THEN e.transcription_text
    ELSE e.extracted_text

\* The step is a normalization or semantic invocation that starts on an
\* Entry whose upstream output is missing
StartsWithoutUpstream(p) ==
    /\ procs[p].pc = "start"
    /\ procs'[p].pc # "start"
    /\ \/ /\ procs[p].kind = "normalization"
          /\ jobs[procs[p].jid].source \in _SUPPORTED_SOURCES
          /\ ~Truthy(RawTextOf(p, entries[procs[p].entry_id]))
       \/ /\ procs[p].kind = "semantic"
          /\ ~Truthy(entries[procs[p].entry_id].normalized_text)

\* The invocation ended without its transform having run
TransformNotInvoked(p) ==
    /\ procs'[p].pc = "raised"
    /\ procs'[p].attempts = 0
    /\ procs'[p].error.code # "normalization_no_content"
    /\ entries'[procs[p].entry_id].normalized_text
           = entries[procs[p].entry_id].normalized_text

\* C22: when a stage's required upstream output is missing (empty
\* transcription_text or extracted_text for normalization, empty
\* normalized_text for semantic), the worker does not invoke the transform,
\* records a non-retryable failure of that stage (pipeline_status
\* <stage>_failed, retryable = false) and enqueues no successor job.
C22_MissingUpstreamFailsStage ==
    [][ \A p \in DOMAIN procs :
            StartsWithoutUpstream(p)
            => /\ TransformNotInvoked(p)
               /\ entries'[procs[p].entry_id].pipeline_status
                      = procs[p].kind \o "_failed"
               /\ LastErrorRetryable(entries'[procs[p].entry_id]) = B(FALSE)
               /\ jobs' = jobs ]_vars

\* The event types of an Entry's capture_events, in order
EventTypes(e) == [i \in DOMAIN e.capture_events |-> e.capture_events[i].type]

\* The sequence without its leading pipeline_status_changed events
RECURSIVE AfterLeadingTransitions(_)
AfterLeadingTransitions(types) ==
    IF types # << >> /\ Head(types) = PIPELINE_TRANSITION_EVENT
    THEN AfterLeadingTransitions(Tail(types))
    ELSE types

HappyAudioEvents ==
    << "transcription_started", "transcription_completed", PIPELINE_TRANSITION_EVENT,
       "normalization_started", "normalization_completed", PIPELINE_TRANSITION_EVENT,
       "semantic_started", "semantic_completed" >>

\* C23: in a full happy-path audio run the Entry's capture_events are, in
\* order, exactly: zero or more pipeline_status_changed, then
\* transcription_started, transcription_completed, pipeline_status_changed,
\* normalization_started, normalization_completed, pipeline_status_changed,
\* semantic_started, semantic_completed.
C23_HappyAudioEventOrder ==
    \A id \in DOMAIN entries :
        HappyRunEnded(id) /\ entries[id].source_type = "audio"
        => AfterLeadingTransitions(EventTypes(entries[id])) = HappyAudioEvents

\* C24: after the normalization worker handles a job successfully, the Entry
\* has pipeline_status normalization_complete and
\* capture_metadata.ingest_state "processing_semantic".
C24_NormalizationSuccessState ==
    [][ \A p \in DOMAIN procs :
            ( /\ procs[p].kind = "normalization"
              /\ procs[p].pc = "start"
              /\ procs'[p].pc = "done" )
            => /\ entries'[procs[p].entry_id].pipeline_status = "normalization_complete"
               /\ IngestStateOf(entries'[procs[p].entry_id]) = "processing_semantic" ]_vars

\* The pair is one the transition table lists
IsListedPair(state, pipeline_status) ==
    /\ state \in DOMAIN PIPELINE_STATUS_TRANSITIONS
    /\ pipeline_status \in DOMAIN PIPELINE_STATUS_TRANSITIONS[state]

\* The call returned the table's target for a listed pair and failed for
\* any other, the state being read as written in state
ResolvesByTable(call, state) ==
    IF IsListedPair(state, call.pipeline_status)
    THEN call.ok /\ call.result = PIPELINE_STATUS_TRANSITIONS[state][call.pipeline_status]
    ELSE ~call.ok

\* C25 as stated: resolve_next_ingest_state(state, status) returns the
\* table's target state for every (state, status) pair listed in the
\* transition table and fails for every other pair, including pairs whose
\* state is not a state of the table.
C25_Original ==
    last.op = "resolve_next_ingest_state"
    => ResolvesByTable(last, last.current_ingest_state)

\* C25 (amended): resolve_next_ingest_state(state, status) reads a missing
\* (null or empty) state as "captured"; with that reading it returns the
\* table's target state for every listed pair and fails for every other
\* pair, including pairs whose non-empty state is not a state of the table.
C25_ResolveFollowsTable ==
    last.op = "resolve_next_ingest_state"
    => ResolvesByTable(last, IF last.current_ingest_state = "" THEN DEFAULT_INGEST_STATE
                             ELSE last.current_ingest_state)

\* The function was called with a missing state and a status listed for
\* "captured", and returned
C25_Witness ==
    /\ last.op = "resolve_next_ingest_state"
    /\ last.current_ingest_state = ""
    /\ last.pipeline_status = "queued_for_transcription"
    /\ last.ok /\ last.result = "queued_for_transcription"

\* C26: create_entry fails and stores no Entry when the supplied metadata has
\* no fingerprint; otherwise, whenever it succeeds, the returned Entry has
\* capture_metadata.ingest_state "captured" and a pipeline_history of exactly
\* one record, whatever initial pipeline_status and metadata the caller
\* passes.
C26_CreateEntryBootstraps ==
    last.op = "create_entry"
    => /\ last.fingerprint = "" => ~last.ok /\ entries = << >>
       /\ last.ok => /\ IngestStateOf(last.entry) = "captured"
                     /\ Len(HistoryOf(last.entry)) = 1

\* A stage's error field and its success payload are both set
ErrorAndPayload(e) ==
    \/ e.transcription_error # None /\ e.transcription_text # None
    \/ e.extraction_error # None /\ e.extracted_text # None
    \/ e.normalization_error # None /\ e.normalized_text # None

\* C27: at every moment and for each stage (transcription, extraction,
\* normalization), the stage's error field and that stage's success payload
\* are never both set, after any sequence of record_*_result and
\* record_*_failure calls.
C27_ErrorExcludesPayload ==
    \A id \in DOMAIN entries : ~ErrorAndPayload(entries[id])

\* C28: after any sequence of gateway operations, an Entry's is_classified
\* is true exactly when both its type_label and its domain_label are present
\* (non-empty).
C28_ClassifiedIffBothLabels ==
    \A id \in DOMAIN entries :
        entries[id].is_classified
            <=> (Truthy(entries[id].type_label) /\ Truthy(entries[id].domain_label))

\* A classified Entry has just lost its type label through the gateway
C28_Witness ==
    /\ last.op \in {"save_classification", "update_entry_taxonomy"}
    /\ last.before.is_classified
    /\ ~Truthy(entries[1].type_label)
    /\ entries[1].domain_label = S("general")
    /\ ~entries[1].is_classified

\* What a completed call returned and stored, as a caller sees it
Outcome(r) == [ok |-> r.ok, err |-> r.err, entry |-> r.entry]

\* C29: for every sequence of gateway operations, the in-memory backend and
\* the table-backed backend return the same results and errors and hold the
\* same Entry contents afterwards. Checked step by step: on equal stored
\* contents the next operation gives the same outcome on both backends.
C29_BackendsAgree ==
    last.op # "none" => Outcome(last) = Outcome(last.twin)

\* Each record of the history starts where the record before it ended
IsLinearHistory(history) ==
    \A i \in 2..Len(history) :
        /\ history[i].v.from_ingest_state = history[i - 1].v.to_ingest_state
        /\ history[i].v.previous_pipeline_status = history[i - 1].v.pipeline_status

\* C30: within one Entry the accepted transitions form a single linear
\* order: each pipeline_history record's from_ingest_state and
\* previous_pipeline_status equal the to_ingest_state and pipeline_status of
\* the record appended just before it, even when gateway calls on that Entry
\* overlap in time.
C30_HistoryIsLinear ==
    \A id \in DOMAIN entries : IsLinearHistory(HistoryOf(entries[id]))

\* C31: every gateway operation other than create_entry, given an entry_id
\* that is not in the store, fails with a not-found error (KeyError) and
\* leaves the store unchanged.
C31_UnknownIdNotFound ==
    [][ ( /\ last'.n # last.n
          /\ last'.op # "create_entry"
          /\ last'.entry_id \notin DOMAIN entries )
        => /\ ~last'.ok
           /\ last'.err.kind = "KeyError"
           /\ entries' = entries
           /\ fingerprint_index' = fingerprint_index ]_vars

\* An operation was called with an entry_id the store does not hold
C31_Witness ==
    /\ last.op \notin {"none", "create_entry"}
    /\ "entry_id" \in DOMAIN last
    /\ last.entry_id \notin DOMAIN entries
    /\ last.err.kind = "KeyError"

\* The patch as merged into prior: a key patched with None has its prior
\* value, a key patched with a scalar has the scalar, a key patched with a
\* dict holds a dict for which the same is true one level down
RECURSIVE PatchApplied(_, _, _)
PatchApplied(prior, patch, result) ==
    \A k \in DOMAIN patch :
        CASE patch[k] = None -> Get(result, k) = Get(prior, k)
          [] IsDict(patch[k]) ->
                /\ IsDict(Get(result, k))
                /\ PatchApplied(IF IsDict(Get(prior, k)) THEN prior[k].v ELSE EmptyDict,
                                patch[k].v, result[k].v)
          [] OTHER -> Get(result, k) = patch[k]

\* C32: merge_capture_metadata keeps the prior value of every key, at any
\* nesting depth, whose patch value is None, and replaces the prior value of
\* every key whose patch value is a non-None scalar.
C32_MergeKeepsNoneSetsScalars ==
    [][ ( /\ last'.n # last.n
          /\ last'.op = "merge_capture_metadata"
          /\ last'.entry_id \in DOMAIN entries )
        => /\ last'.ok
           /\ PatchApplied(entries[last'.entry_id].capture_metadata,
                           last'.call.patch,
                           entries'[last'.entry_id].capture_metadata) ]_vars

\* A patch with None for an existing nested key and a scalar for another
\* was merged: the one kept its value, the other took the patch's
C32_Witness ==
    /\ last.op = "merge_capture_metadata"
    /\ last.call.patch = [note |-> D([tags |-> D([first |-> None, second |-> S("b")])])]
    /\ Get(entries[1].capture_metadata, "note")
         = D([author |-> S("ann"), text |-> S("memo"),
              tags |-> D([first |-> S("a"), second |-> S("b")])])

\* C33: evaluate_idempotency returns should_process = true with reason
\* no_existing_entry when the store holds no Entry for the pair, and
\* should_process = true with reason existing_entry_retry_allowed and the id
\* of the existing Entry when the Entry held for the pair has a failed status.
C33_IdempotencyAllows ==
    \A pair \in CapturePairs :
        LET rows == RowsWith(pair[1], pair[2])
            decision == evaluate_idempotency(pair[1], pair[2])
        IN  /\ rows = {}
               => /\ decision.should_process
                  /\ decision.reason = "no_existing_entry"
                  /\ decision.existing_entry_id = 0
            /\ ( /\ rows # {}
                 /\ \A id \in rows : entries[id].pipeline_status \in FailedStatuses )
               => /\ decision.should_process
                  /\ decision.reason = "existing_entry_retry_allowed"
                  /\ decision.existing_entry_id \in rows

\* The lookup allowed the re-capture of an input whose Entry had failed,
\* with a store that holds no Entry for another pair
C33_Witness ==
    /\ last.op = "evaluate_idempotency"
    /\ last.decision.reason = "existing_entry_retry_allowed"
    /\ last.decision.should_process
    /\ entries[last.decision.existing_entry_id].pipeline_status \in FailedStatuses
    /\ \E pair \in CapturePairs :
          /\ RowsWith(pair[1], pair[2]) = {}
          /\ evaluate_idempotency(pair[1], pair[2]).reason = "no_existing_entry"

ProcessingStates ==
    { "processing_transcription", "processing_extraction", "processing_normalization",
      "processing_semantic" }

\* The failure status of the stage a processing state belongs to
FailureStatusOf(state) ==
    CASE state = "processing_transcription" -> "transcription_failed"
      [] state = "processing_extraction" -> "extraction_failed"
      [] state = "processing_normalization" -> "normalization_failed"
      [] state = "processing_semantic" -> "semantic_failed"

\* C34: from each processing ingest_state (processing_transcription,
\* processing_extraction, processing_normalization, processing_semantic) the
\* transition table accepts a failure status, that of the state's own stage,
\* and the status leads to the terminal state failed.
C34_FailedReachableFromProcessing ==
    /\ \A state \in ProcessingStates :
          /\ ResolveAccepts(state, FailureStatusOf(state))
          /\ resolve_next_ingest_state(state, FailureStatusOf(state)) = "failed"
    /\ ( /\ last.op = "resolve_next_ingest_state"
         /\ last.current_ingest_state \in ProcessingStates
         /\ last.pipeline_status = FailureStatusOf(last.current_ingest_state) )
       => /\ last.ok
          /\ last.result = "failed"

\* resolve_next_ingest_state was called with processing_semantic and
\* semantic_failed and returned failed
C34_Witness ==
    /\ last.op = "resolve_next_ingest_state"
    /\ last.current_ingest_state = "processing_semantic"
    /\ last.pipeline_status = "semantic_failed"
    /\ last.ok
    /\ last.result = "failed"

\* The messages the queue holds and has not yet handed to a worker
AvailableJobs == { j \in DOMAIN jobs : jobs[j].deliveries = 0 }

\* C35: whenever a stage job is available for delivery, the Entry it names is
\* in an ingest_state that accepts that stage's <stage>_in_progress status, so
\* a worker that picks the job up at once is not rejected by the state
\* machine; this holds for the first job a watcher or the capture API
\* enqueues as well as for hand-off jobs.
C35_AvailableJobIsStartable ==
    \A j \in AvailableJobs :
        TableAccepts(IngestStateOf(entries[jobs[j].entry_id]),
                     WorkerOf(jobs[j].job_type) \o "_in_progress")

\* The success payload a stage stores on the Entry
PayloadOf(e, stage) ==
    CASE stage = 1 -> <<e.transcription_text, e.extracted_text>>
      [] stage = 2 -> <<e.normalized_text>>

\* C36: once an Entry has advanced past a stage (a status of a later stage
\* was accepted), that stage's stored success payload is never changed again
\* by a late or duplicate job of that stage.
C36_PayloadFrozenAfterAdvance ==
    [][ \A id \in DOMAIN entries : \A stage \in {1, 2} :
            AdvancedPast(entries[id], stage)
            => PayloadOf(entries'[id], stage) = PayloadOf(entries[id], stage) ]_vars

\* C37: at every moment the Entry's current pipeline_status is accepted from
\* its current ingest_state and resolves to that same ingest_state, so
\* re-applying the current status is a legal no-op and never an error.
C37_CurrentStatusIsFixedPoint ==
    \A id \in DOMAIN entries :
        /\ TableAccepts(IngestStateOf(entries[id]), entries[id].pipeline_status)
        /\ PIPELINE_STATUS_TRANSITIONS[IngestStateOf(entries[id])][entries[id].pipeline_status]
             = IngestStateOf(entries[id])

\* C38: once an Entry's ingest_state is processed or failed, no
\* update_pipeline_status call, and so no sequence of them, moves it to any
\* other ingest_state.
C38_TerminalStatesAbsorb ==
    [][ \A id \in DOMAIN entries :
            ( /\ IngestStateOf(entries[id]) \in TerminalStates
              /\ last' # last
              /\ last'.op = "update_pipeline_status" )
            => IngestStateOf(entries'[id]) = IngestStateOf(entries[id]) ]_vars

\* The transition records carried by the pipeline_status_changed events of a
\* capture_events list, in order
RECURSIVE TransitionEventData(_)
TransitionEventData(events) ==
    IF events = << >> THEN << >>
    ELSE IF Head(events).type = PIPELINE_TRANSITION_EVENT
         THEN <<Head(events).data>> \o TransitionEventData(Tail(events))
         ELSE TransitionEventData(Tail(events))

\* C39: at every moment the pipeline_status_changed events in capture_events
\* correspond one-to-one and in order with the pipeline_history records after
\* the creation record, each event carrying the same transition record as its
\* history record.
C39_EventsMirrorHistory ==
    \A id \in DOMAIN entries :
        /\ HistoryOf(entries[id]) # << >>
        /\ TransitionEventData(entries[id].capture_events) = Tail(HistoryOf(entries[id]))

FirstStageJobTypes == {"transcription", "doc_extraction"}

\* C40: every job a capture producer (watcher or capture API) enqueues
\* carries all the fields the consuming stage worker requires (entry_id,
\* source_path, source_channel, fingerprint), so the worker's payload
\* validation never rejects a first-stage job.
C40_FirstStagePayloadComplete ==
    /\ \A j \in DOMAIN jobs :
          jobs[j].job_type \in FirstStageJobTypes
          => /\ jobs[j].entry_id \in DOMAIN entries
             /\ jobs[j].source_path
             /\ Truthy(jobs[j].source_channel)
             /\ Truthy(jobs[j].fingerprint)
    /\ \A p \in DOMAIN procs :
          procs[p].kind \in {"transcription", "extraction"}
          => ~(procs[p].pc = "raised" /\ procs[p].error.code = "payload")

====
